---- MODULE Spec2Model ----
(***************************************************************************)
(* A model of the galevm evaluator (src/src/visit.rs: Vm) together with    *)
(* its scopes (src/src/var.rs), callables (src/src/fns.rs) and keyword /   *)
(* expression visitors (src/src/tks/kw.rs, src/src/tks/expr.rs).           *)
(*                                                                         *)
(* The evaluator state is kept in the variables below.  Every function of  *)
(* the source is modelled as an operator from an evaluator record (Cur) to *)
(* the evaluator record after the function has run; a Rust panic is the    *)
(* record with `failed` set, after which the evaluator takes no step.      *)
(*                                                                         *)
(* The token chain `tks` is the VecDeque of the source: index 1 is the     *)
(* front (head), index Len(tks) is the back (tail).                        *)
(***************************************************************************)
EXTENDS Integers, Sequences, FiniteSets, TLC

VARIABLES
    tks,            \* Vm.tks: VecDeque<Token>
    lit_stack,      \* Vm.lit_stack: Vec<Literal>
    current_scope,  \* Vm.current_scope: String (a path of "::"-separated segments)
    scopes,         \* Vm.scopes: HashMap<String, ContainingScope>
    scope_types,    \* Vm.scope_types: VecDeque<Scope>, index 1 is the front
    EXTERN_FNS,     \* fns.rs EXTERN_FNS: the process-wide table of host functions
    frames,         \* the Rust call stack of StaticFn::call activations in progress
    running,        \* TRUE while Vm::process is executing
    failed,         \* "none", or the panic that unwound the evaluator
    loads,          \* number of load_chain calls the embedder has made
    uid,            \* number of activation scopes created so far
    tks_src,        \* history: for each token of tks, the activation that loaded it (0: the embedder)
    loaded,         \* history: the chain of the embedder's latest load_chain
    consumed,       \* history: the tokens removed from the tail of tks since that load
    trace,          \* history: every token dispatched by process, with the scope it ran in
    host_calls,     \* history: every host function invoked, with its arguments
    returned,       \* history: every activation that returned, with the frame it restored
    codec,          \* a Transmute write/read in progress: the target's byte order, the value
                    \* written, the buffer and what was read back
    ext,            \* the Mutex around EXTERN_FNS and the evaluator threads using it: which
                    \* thread holds the guard, and where each thread stands in an extern call
                    \* or registration
    overflow_checks, \* the build: TRUE when rustc compiled the crate with overflow checks
                    \* (the default of a debug build), FALSE when without (a release build)
    instance,       \* a StructureInstance (its inst_vars) and the inst_vars schema of the
                    \* StructureTemplate it is written through
    api_result      \* history: the embedder's calls of next_token, peek_token, process_until
                    \* and process_between so far, and the argument and outcome of the latest

vars == <<tks, lit_stack, current_scope, scopes, scope_types, EXTERN_FNS, frames,
          running, failed, loads, uid, tks_src, loaded, consumed, trace, host_calls,
          returned, codec, ext, overflow_checks, instance, api_result>>

(* ------------------------------ bounds --------------------------------- *)
MaxLoads == 3      \* load_chain calls made by the embedder

(* ------------------------------ helpers -------------------------------- *)
EmptyMap == << >>
Has(m, k) == k \in DOMAIN m
Put(m, k, v) == [x \in (DOMAIN m) \cup {k} |-> IF x = k THEN v ELSE m[x]]
Del(m, k) == [x \in (DOMAIN m) \ {k} |-> m[x]]
Last(s) == s[Len(s)]
Front(s) == SubSeq(s, 1, Len(s) - 1)

RECURSIVE Reverse(_)
Reverse(s) == IF s = << >> THEN << >> ELSE Append(Reverse(Tail(s)), Head(s))

(* ------------------------------ Literal -------------------------------- *)
\* A string payload is a sequence of chunks; the chunk "{}" is a format placeholder.
Number(n) == [t |-> "num", n |-> n]
String(s) == [t |-> "str", s |-> s]
Ident(s) == [t |-> "ident", id |-> s]
Bool(b) == [t |-> "bool", b |-> b]
TypeName(s) == [t |-> "typename", ty |-> s]
Void == [t |-> "void"]

type_str(lit, tn) ==
    CASE lit.t = "num" -> tn = "num"
      [] lit.t = "float" -> tn = "float"
      [] lit.t = "str" -> tn = "str"
      [] lit.t = "char" -> tn = "char"
      [] lit.t = "ident" -> TRUE
      [] lit.t = "bool" -> tn = "bool"
      [] lit.t = "typename" -> tn = "typename"
      [] lit.t = "void" -> tn = "void"

type_matches(a, b) ==
    IF a.t \in {"num", "float", "str", "char", "ident", "typename", "bool"}
    THEN b.t = a.t
    ELSE TRUE

(* ------------------------------- Token --------------------------------- *)
Lit(l) == [k |-> "Literal", lit |-> l]
Kw(w) == [k |-> "Keyword", kw |-> w]
Expr(e) == [k |-> "Expression", ex |-> e]
Whitespace == [k |-> "Whitespace"]
LBracket == [k |-> "LBracket"]
RBracket == [k |-> "RBracket"]
LParen == [k |-> "LParen"]
RParen == [k |-> "RParen"]
\* Expression::BinaryOp(BinaryOp::Assign, lh, rh)
Assign(name, rh) == Expr([e |-> "BinaryOp", op |-> "Assign", lh |-> Lit(Ident(name)), rh |-> rh])
\* Expression::InvokeStatic(path, params); the path "a::b::f" is <<"a", "b", "f">> and
\* the path "a::S.f" is <<"a", "S", ".", "f">>
InvokeStatic(path, params) == Expr([e |-> "InvokeStatic", path |-> path, params |-> params])

(* --------------------------- ContainingScope --------------------------- *)
NewScope ==
    [mutables |-> EmptyMap, consts |-> EmptyMap, static_fns |-> EmptyMap,
     inst_fns |-> EmptyMap, exports |-> << >>, extern_fns |-> EmptyMap,
     imports |-> EmptyMap, structs |-> EmptyMap]

\* add_var without the replacement of an existing binding
add_var_keeps_first(sc, name, var) ==
    IF Has(sc.mutables, name) THEN sc ELSE [sc EXCEPT !.mutables = Put(@, name, var)]
add_var(sc, name, var) == [sc EXCEPT !.mutables = Put(Del(@, name), name, var)]

\* add_const panics when the name is already a constant: callers test add_const_panics first
\* add_const without the check for an existing constant
add_const_never_panics(sc, name) == FALSE
add_const_panics(sc, name) == Has(sc.consts, name)
add_const(sc, name, var) == [sc EXCEPT !.consts = Put(@, name, var)]

get_var(sc, name) == IF Has(sc.mutables, name) THEN <<sc.mutables[name]>> ELSE << >>
get_const(sc, name) == IF Has(sc.consts, name) THEN <<sc.consts[name]>> ELSE << >>

(* --------------------------------- Vm ---------------------------------- *)
GlobalName == <<"global">>

Cur ==
    [tks |-> tks, lit_stack |-> lit_stack, current_scope |-> current_scope,
     scopes |-> scopes, scope_types |-> scope_types, EXTERN_FNS |-> EXTERN_FNS,
     frames |-> frames, running |-> running, failed |-> failed, loads |-> loads,
     uid |-> uid, tks_src |-> tks_src, loaded |-> loaded, consumed |-> consumed,
     trace |-> trace,
     host_calls |-> host_calls, returned |-> returned,
     overflow_checks |-> overflow_checks]

SetVmState(v) ==
    /\ tks' = v.tks
    /\ lit_stack' = v.lit_stack
    /\ current_scope' = v.current_scope
    /\ scopes' = v.scopes
    /\ scope_types' = v.scope_types
    /\ EXTERN_FNS' = v.EXTERN_FNS
    /\ frames' = v.frames
    /\ running' = v.running
    /\ failed' = v.failed
    /\ loads' = v.loads
    /\ uid' = v.uid
    /\ tks_src' = v.tks_src
    /\ loaded' = v.loaded
    /\ consumed' = v.consumed
    /\ trace' = v.trace
    /\ host_calls' = v.host_calls
    /\ returned' = v.returned
    /\ codec' = codec
    /\ ext' = ext
    /\ overflow_checks' = overflow_checks
    /\ instance' = instance

SetVm(v) ==
    /\ SetVmState(v)
    /\ api_result' = api_result

\* a panic unwinds through Vm::process to the embedder
Panic(v, msg) == [v EXCEPT !.failed = msg, !.running = FALSE]

\* the activation in progress (0: none) -- used by the history variables only
ActiveFrame(v) == IF v.frames = << >> THEN 0 ELSE Last(v.frames).id

\* add_token appending at the tail instead of pushing at the head
add_token_at_tail(v, tk, src) == [v EXCEPT !.tks = Append(@, tk), !.tks_src = Append(@, src)]
add_token(v, tk, src) == [v EXCEPT !.tks = <<tk>> \o @, !.tks_src = <<src>> \o @]

RECURSIVE load_chain_from(_, _, _)
load_chain_from(v, chain, src) ==
    IF chain = << >> THEN v
    ELSE IF Len(chain) = 1 THEN add_token(v, chain[1], src)
    ELSE LET half == Len(chain) \div 2
             rest(w) == IF w.tks = << >> THEN w
                        ELSE load_chain_from(w, SubSeq(chain, half + 1, Len(chain)), src)
         IN rest(load_chain_from(v, SubSeq(chain, 1, half), src))

load_chain(v, chain) == load_chain_from(v, chain, ActiveFrame(v))

\* VecDeque::pop_back on a non-empty chain; callers test for emptiness first
pop_back(v) ==
    [v EXCEPT !.tks = Front(@), !.tks_src = Front(@),
              !.consumed = Append(@, [tok |-> Last(v.tks), src |-> Last(v.tks_src)])]

push_stack(v, lit) == [v EXCEPT !.lit_stack = Append(@, lit)]
pop_stack(v) == [v EXCEPT !.lit_stack = Front(@)]

Vm_add_var(v, name, var) ==
    [v EXCEPT !.scopes[v.current_scope] = add_var(@, name, var)]

Vm_add_const(v, name, var) ==
    IF add_const_panics(v.scopes[v.current_scope], name)
    THEN Panic(v, "Can not reassign constant")
    ELSE [v EXCEPT !.scopes[v.current_scope] = add_const(@, name, var)]

resolve_var(v, name) == get_var(v.scopes[v.current_scope], name)

(* ------------------------- scope lookups (var.rs) ----------------------- *)
get_static_fn(sc, name) == IF Has(sc.static_fns, name) THEN <<sc.static_fns[name]>> ELSE << >>
get_extern_fn(sc, name) == IF Has(sc.extern_fns, name) THEN <<sc.extern_fns[name]>> ELSE << >>
get_inst_fn(sc, name) == IF Has(sc.inst_fns, name) THEN <<sc.inst_fns[name]>> ELSE << >>
get_struct(sc, name) == IF Has(sc.structs, name) THEN <<sc.structs[name]>> ELSE << >>

StaticFn_new(out_ty, param_names, chain) ==
    [out_ty |-> out_ty, param_names |-> param_names, chain |-> chain]
ExternFn_new(out_ty, param_names, handler) ==
    [out_ty |-> out_ty, param_names |-> param_names, handler |-> handler]

add_static_fn(sc, name, out_ty, param_names, chain) ==
    [sc EXCEPT !.static_fns = Put(@, name, StaticFn_new(out_ty, param_names, chain))]
add_extern_fn(sc, name, out_ty, param_names, handler) ==
    [sc EXCEPT !.extern_fns = Put(@, name, ExternFn_new(out_ty, param_names, handler))]
add_prebuilt_static_fn(sc, name, sf) == [sc EXCEPT !.static_fns = Put(@, name, sf)]
add_prebuilt_extern_fn(sc, name, ef) == [sc EXCEPT !.extern_fns = Put(@, name, ef)]
add_struct(sc, name, typ) == [sc EXCEPT !.structs = Put(@, name, typ)]
export(sc, name) == [sc EXCEPT !.exports = Append(@, name)]
import(sc, from, name) ==
    [sc EXCEPT !.imports = IF Has(@, from) THEN Put(Del(@, from), from, Append(@[from], name))
                           ELSE Put(@, from, <<name>>)]

\* var.rs get_any_value.  The Mutable arm returns Some(Mutable(c?)) where c is the
\* (absent) constant: the `?` makes the whole lookup return None.
get_any_value(sc, name) ==
    IF get_const(sc, name) # << >> THEN <<[kind |-> "Constant", val |-> get_const(sc, name)[1]]>>
    ELSE IF get_var(sc, name) # << >> THEN << >>
    ELSE IF get_struct(sc, name) # << >> THEN <<[kind |-> "Type", val |-> get_struct(sc, name)[1]]>>
    ELSE IF get_static_fn(sc, name) # << >>
         THEN <<[kind |-> "StaticFn", val |-> get_static_fn(sc, name)[1]]>>
    ELSE IF get_inst_fn(sc, name) # << >>
         THEN <<[kind |-> "InstFn", val |-> get_inst_fn(sc, name)[1]]>>
    ELSE IF get_extern_fn(sc, name) # << >>
         THEN <<[kind |-> "ExternFn", val |-> get_extern_fn(sc, name)[1]]>>
    ELSE << >>

\* The callable a name denotes in a scope: a user-defined static function or an extern
\* (the StaticFnType sum of visit.rs, whose definition is not part of the sources).
get_callable(sc, name) ==
    IF get_static_fn(sc, name) # << >>
    THEN <<[kind |-> "Standard", fn |-> get_static_fn(sc, name)[1]]>>
    ELSE IF get_extern_fn(sc, name) # << >>
    THEN <<[kind |-> "Extern", fn |-> get_extern_fn(sc, name)[1]]>>
    ELSE << >>

(* --------------------------- Vm::merged_scope --------------------------- *)
\* one imported name copied into the current scope (the body of the inner loop)
merge_name(v, from, name) ==
    IF v.failed # "none" THEN v
    ELSE IF ~Has(v.scopes, from) THEN Panic(v, "import from a scope that does not exist")
    ELSE LET cur == v.current_scope
             add(value) ==
                IF value = << >> THEN Panic(v, "Tried to import non-existent value")
                ELSE CASE value[1].kind = "Constant" -> Vm_add_const(v, name, value[1].val)
                       [] value[1].kind = "Mutable" ->
                            [v EXCEPT !.scopes[cur] = add_var(@, name, value[1].val)]
                       [] value[1].kind = "Type" ->
                            [v EXCEPT !.scopes[cur] = add_struct(@, name, value[1].val)]
                       [] value[1].kind = "StaticFn" ->
                            [v EXCEPT !.scopes[cur] =
                                add_prebuilt_static_fn(@, name, value[1].val)]
                       [] value[1].kind = "ExternFn" ->
                            [v EXCEPT !.scopes[cur] =
                                add_prebuilt_extern_fn(@, name, value[1].val)]
         IN add(get_any_value(v.scopes[from], name))

RECURSIVE merge_names(_, _, _)
merge_names(v, from, names) ==
    IF names = << >> THEN v
    ELSE merge_names(merge_name(v, from, Head(names)), from, Tail(names))

\* the import sources are visited in the (arbitrary but fixed) order of the HashMap
RECURSIVE merge_sources(_, _, _)
merge_sources(v, imports, left) ==
    IF left = {} THEN v
    ELSE LET from == CHOOSE s \in left : TRUE
         IN merge_sources(merge_names(v, from, imports[from]), imports, left \ {from})

merged_scope(v) ==
    LET imports == v.scopes[v.current_scope].imports
    IN merge_sources(v, imports, DOMAIN imports)

\* Vm::resolve_const: the evaluator after the merge, and the constant found (if any)
resolve_const(v, name) ==
    LET found(m) ==
            [v |-> m,
             lit |-> IF m.failed # "none" THEN << >>
                     ELSE get_const(m.scopes[m.current_scope], name)]
    IN found(merged_scope(v))

\* ScopeProvider::resolve_any_var: the mutable of the current scope, else the constant
\* of the merged view; a name bound as neither panics (unwrap of an Err)
resolve_any_var(v, name) ==
    IF resolve_var(v, name) # << >> THEN [v |-> v, lit |-> resolve_var(v, name)]
    ELSE LET unwrap(rc) ==
                IF rc.v.failed # "none" THEN rc
                ELSE IF rc.lit = << >> THEN [v |-> Panic(rc.v, "Empty option!"), lit |-> << >>]
                ELSE rc
         IN unwrap(resolve_const(v, name))

(* ---------------------------- host functions -------------------------- *)
\* Display for Literal (lit.rs), as the chunks of the string it writes
Display(lit) ==
    CASE lit.t = "num" -> <<ToString(lit.n)>>
      [] lit.t = "str" -> lit.s
      [] lit.t = "ident" -> <<lit.id>>
      [] lit.t = "bool" -> <<IF lit.b THEN "true" ELSE "false">>
      [] lit.t = "typename" -> <<lit.ty>>
      [] lit.t = "void" -> <<"*">>

\* str::replacen(pattern, "{}", with, 1)
RECURSIVE replacen1(_, _)
replacen1(pattern, with) ==
    IF pattern = << >> THEN << >>
    ELSE IF Head(pattern) = "{}" THEN with \o Tail(pattern)
    ELSE <<Head(pattern)>> \o replacen1(Tail(pattern), with)

RECURSIVE fmt_fold(_, _)
fmt_fold(pattern, rest) ==
    IF rest = << >> THEN pattern
    ELSE fmt_fold(replacen1(pattern, Display(Head(rest))), Tail(rest))

\* unwrap_args!(params => (Number, Number)): the tuple is filled with pop_back, so
\* its first component is the LAST argument; << >> when it panics
unwrap_args_2(params) ==
    IF Len(params) < 2 THEN << >>
    ELSE LET first == params[Len(params)]
             second == params[Len(params) - 1]
         IN IF first.t = "num" /\ second.t = "num" THEN <<first.n, second.n>> ELSE << >>

\* stdlib/math.rs: min, max, cmp
math_fn(host, params) ==
    LET body(args) ==
            IF args = << >> THEN << >>
            ELSE CASE host = "min" ->
                        LET min == args[1]  value == args[2]
                        IN <<Number(IF min < value THEN value ELSE min)>>
                   [] host = "max" ->
                        LET max == args[1]  value == args[2]
                        IN <<Number(IF max < value THEN max ELSE value)>>
                   [] host = "cmp" ->
                        LET lh == args[1]  rh == args[2]
                        IN <<Number(IF lh = rh THEN 0 ELSE IF lh < rh THEN -1 ELSE 1)>>
    IN body(unwrap_args_2(params))

\* The host functions registered by the tests of lib.rs and by the IO feature.
\* The result is <<literal>>, or << >> when the host function itself panics.
HostCall(host, params) ==
    CASE host = "add" ->
            IF Len(params) < 2 THEN << >>
            ELSE IF params[1].t = "num" /\ params[2].t = "num"
                 THEN <<Number(params[1].n + params[2].n)>>
                 ELSE <<Void>>
      [] host = "example_print" -> IF Len(params) < 1 THEN << >> ELSE <<Void>>
      [] host \in {"print", "println"} ->
            IF Len(params) < 1 \/ Last(params).t # "str" THEN << >> ELSE <<Void>>
      [] host = "fmt" ->
            IF Len(params) < 1 \/ Head(params).t # "str" THEN << >>
            ELSE <<String(fmt_fold(Head(params).s, Tail(params)))>>
      [] host \in {"debug", "debugp"} -> IF Len(params) < 1 THEN << >> ELSE <<Void>>
      [] host \in {"min", "max", "cmp"} -> math_fn(host, params)

(* ------------------- what a visitor does with a value ------------------- *)
\* The value tokens of Let, Const, Return and Assign and a bare InvokeStatic token
\* may hold a call, which runs token by token; `cont` names the code that runs
\* when the value is there.
ContPush == [k |-> "push"]
ContLet(name) == [k |-> "let", name |-> name]
ContConst(name) == [k |-> "const", name |-> name]
ContAssign(name) == [k |-> "assign", name |-> name]
ContReturn == [k |-> "return"]

ApplyCont(v, cont, lit) ==
    CASE cont.k = "push" -> push_stack(v, lit)
      [] cont.k = "let" -> Vm_add_var(v, cont.name, lit)
      [] cont.k = "const" -> Vm_add_const(v, cont.name, lit)
      [] cont.k = "assign" -> Vm_add_var(v, cont.name, lit)
      [] cont.k = "return" -> push_stack(v, lit)

(* ------------------------------ callables ------------------------------- *)
\* the name of the activation scope: format!("static_fn_0x{:2x}", random u64), taken
\* to be fresh (two draws of 64 random bits do not collide)
ActivationName(n) == <<"static_fn_0x", ToString(n)>>

\* the parameters bound as constants of the new scope; << >> when add_const panics
RECURSIVE bind_params(_, _, _)
bind_params(sc, names, params) ==
    IF names = << >> THEN <<sc>>
    ELSE IF add_const_panics(sc, Head(names)) THEN << >>
    ELSE bind_params(add_const(sc, Head(names), Head(params)), Tail(names), Tail(params))

\* a call without the comparison of the argument count
arity_unchecked(param_names, params) == TRUE
arity_ok(param_names, params) == Len(params) = Len(param_names)

push_scope_level(v, level) == [v EXCEPT !.scope_types = <<level>> \o @]
pop_scope_level(v) == [v EXCEPT !.scope_types = Tail(@)]
scope_level(v) == Head(v.scope_types)
push_scope(v, name, sc) == [v EXCEPT !.scopes = Put(@, name, sc)]
move_scope(v, name) == [v EXCEPT !.current_scope = name]
\* a return that leaves the activation scope in the scope map
drop_scope_skipped(v, name) == v
drop_scope(v, name) == [v EXCEPT !.scopes = Del(@, name)]

\* StaticFn::call up to and including load_chain; the process() that follows runs
\* as the steps of the evaluator and StaticFn_return finishes the call
StaticFn_call(v, fn, params, cont) ==
    IF ~arity_ok(fn.param_names, params)
    THEN Panic(v, "Invalid amount of arguments supplied!")
    ELSE LET scope == bind_params(NewScope, fn.param_names, params)
             id == v.uid + 1
             name == ActivationName(id)
             frame == [id |-> id, cached |-> v.current_scope, name |-> name,
                       out_ty |-> fn.out_ty, cont |-> cont, guard |-> << >>,
                       entry |-> [scope |-> v.current_scope, types |-> v.scope_types,
                                  stack |-> v.lit_stack, pending |-> v.tks]]
         IN IF scope = << >> THEN Panic(v, "Can not reassign constant")
            ELSE LET v1 == push_scope_level([v EXCEPT !.uid = id], "InstanceFunction")
                     v2 == push_scope(v1, name, scope[1])
                     v3 == move_scope(v2, name)
                     v4 == [v3 EXCEPT !.frames = Append(@, frame)]
                 IN load_chain(v4, fn.chain)

return_type_ok(output, out_ty) == type_str(output, out_ty)

\* StaticFn::call after process() has drained the chain
StaticFn_return(v) ==
    LET frame == Last(v.frames)
    IN IF v.lit_stack = << >> THEN Panic(v, "pop_stack on an empty literal stack")
       ELSE LET output == Last(v.lit_stack)
                v1 == pop_stack(v)
            IN IF ~return_type_ok(output, frame.out_ty)
               THEN Panic(v1, "Invalid output provided!")
               ELSE IF ~Has(v1.scopes, frame.name)
               THEN Panic(move_scope(v1, frame.cached), "drop_scope of a missing scope")
               ELSE LET v2 == move_scope(v1, frame.cached)
                        v3 == drop_scope(v2, frame.name)
                        v4 == pop_scope_level(v3)
                        v5 == [v4 EXCEPT !.frames = Front(@),
                                         !.returned = Append(@, [id |-> frame.id,
                                                                 depth |-> Len(v.frames),
                                                                 name |-> frame.name,
                                                                 output |-> output,
                                                                 entry |-> frame.entry])]
                    IN ApplyCont(v5, frame.cont, output)

\* ExternFn::call indexing the table with the handler itself instead of handler - 1
ExternFn_call_unshifted(v, fn, params, cont) ==
    IF ~arity_ok(fn.param_names, params)
    THEN Panic(v, "Invalid amount of arguments supplied!")
    ELSE IF fn.handler + 1 > Len(v.EXTERN_FNS)
    THEN Panic(v, "index out of bounds")
    ELSE LET host == v.EXTERN_FNS[fn.handler + 1]
             v1 == [v EXCEPT !.host_calls = Append(@, [host |-> host, args |-> params])]
             result(out) ==
                IF out = << >> THEN Panic(v1, "host function panicked")
                ELSE ApplyCont(v1, cont, out[1])
         IN result(HostCall(host, params))

\* ExternFn::call
ExternFn_call(v, fn, params, cont) ==
    IF ~arity_ok(fn.param_names, params)
    THEN Panic(v, "Invalid amount of arguments supplied!")
    ELSE IF fn.handler < 1 \/ fn.handler > Len(v.EXTERN_FNS)
    THEN Panic(v, "index out of bounds")
    ELSE LET host == v.EXTERN_FNS[fn.handler]
             v1 == [v EXCEPT !.host_calls = Append(@, [host |-> host, args |-> params])]
             result(out) ==
                IF out = << >> THEN Panic(v1, "host function panicked")
                ELSE ApplyCont(v1, cont, out[1])
         IN result(HostCall(host, params))

callable_call(v, callable, params, cont) ==
    IF callable.kind = "Standard" THEN StaticFn_call(v, callable.fn, params, cont)
    ELSE ExternFn_call(v, callable.fn, params, cont)

\* Token::as_lit_advanced on a literal token: an identifier is resolved, any
\* other literal is taken as it is
as_lit_advanced(v, tok) ==
    IF tok.lit.t = "ident" THEN resolve_any_var(v, tok.lit.id)
    ELSE [v |-> v, lit |-> <<tok.lit>>]

\* the arguments of a call, evaluated left to right (literal tokens)
RECURSIVE eval_params(_, _, _)
eval_params(v, params, acc) ==
    IF params = << >> \/ v.failed # "none" THEN [v |-> v, lits |-> acc]
    ELSE LET next(r) ==
                IF r.v.failed # "none" THEN [v |-> r.v, lits |-> acc]
                ELSE eval_params(r.v, Tail(params), Append(acc, r.lit[1]))
         IN next(as_lit_advanced(v, Head(params)))

\* the template locks whose guard is alive: call_static_fn keeps the guard of the
\* template while the function it called on it runs
held_templates(v) ==
    {v.frames[i].guard[1] : i \in {j \in 1..Len(v.frames) : v.frames[j].guard # << >>}}

\* Mutex::lock on a lock the thread holds does not return: the thread blocks, and
\* the build may make it panic instead (RelockPanics)
WaitLock == "lock() of a template lock the evaluator holds"

RelockPanic == "Mutex::lock panicked on a lock the thread holds"

\* StructureTemplate: the typename and the scope of the statics; arc is the shared
\* handle (every clone of the handle locks the same template)
StructureTemplate(typename, scope, arc) == [typename |-> typename, scope |-> scope, arc |-> arc]

\* StructureTemplate::call_static_fn, the lookup: the static function as a callable
StructureTemplate_static_fn(str, name) ==
    IF Len(name) = 1 /\ get_static_fn(str.scope, name[1]) # << >>
    THEN <<[kind |-> "Standard", fn |-> get_static_fn(str.scope, name[1])[1]]>>
    ELSE << >>

\* what Vm::call_static_fn finds under a name in the scope `sc` of the evaluator m:
\* the callable (if any), else the panic; for a name "S.f" the template S is found in
\* sc, locked (`let mut str = str.lock().unwrap()`), and f is looked up in its statics
static_fn_in(m, sc, path, dot, msg) ==
    LET none(w) == [v |-> w, fnc |-> << >>, guard |-> << >>]
        plain(fnc) ==
            IF fnc = << >> THEN none(Panic(m, msg)) ELSE [v |-> m, fnc |-> fnc, guard |-> << >>]
        member(str) ==
            IF str = << >> THEN none(Panic(m, "unwrap of a missing structure"))
            ELSE IF str[1].arc \in held_templates(m) THEN none(Panic(m, WaitLock))
            ELSE LET method(fnc) ==
                        IF fnc = << >>
                        THEN none(Panic(m, "Could not find function in current scope!"))
                        ELSE [v |-> m, fnc |-> fnc, guard |-> <<str[1].arc>>]
                 IN method(StructureTemplate_static_fn(str[1], SubSeq(path, dot + 1, Len(path))))
    IN IF dot = 0 THEN plain(get_callable(sc, Last(path)))
       ELSE IF dot = 1 THEN member(<< >>)
       ELSE member(get_struct(sc, path[dot - 1]))

\* the guard of the template is dropped at the end of the block, after
\* `str.call_static_fn(name.to_string(), params, self)` has returned
guarded(w, guard) ==
    IF w.failed # "none" \/ guard = << >> THEN w
    ELSE [w EXCEPT !.frames[Len(w.frames)].guard = guard]

\* the position of the last "." of the path, or 0
last_dot(path) ==
    IF \A i \in 1..Len(path) : path[i] # "." THEN 0
    ELSE CHOOSE i \in 1..Len(path) : path[i] = "." /\ \A j \in (i + 1)..Len(path) : path[j] # "."

\* Vm::call_static_fn
call_static_fn(v, path, params, cont) ==
    IF scope_level(v) = "Struct"
    THEN Panic(v, "Can not call functions inside a raw struct scope!")
    ELSE LET dot == last_dot(path)
             \* the scope the name gives before the function, or before the structure
             from == IF dot = 0 THEN Front(path) ELSE SubSeq(path, 1, dot - 2)
             call(r, lits) ==
                IF r.v.failed # "none" THEN r.v
                ELSE guarded(callable_call(r.v, r.fnc[1], lits, cont), r.guard)
             found(m, lits) ==
                IF m.failed # "none" THEN m
                ELSE IF from = << >>
                THEN call(static_fn_in(m, m.scopes[m.current_scope], path, dot,
                                       "Could not find function in current scope!"), lits)
                ELSE IF ~Has(m.scopes, from) THEN Panic(m, "get_scope of a missing scope")
                ELSE call(static_fn_in(m, m.scopes[from], path, dot,
                                       "unwrap of a missing function"), lits)
             with(ep) ==
                IF ep.v.failed # "none" THEN ep.v
                ELSE found(IF from = << >> THEN merged_scope(ep.v) ELSE ep.v, ep.lits)
         IN with(eval_params(v, params, << >>))

(* --------------------------- token visitors ----------------------------- *)
RECURSIVE pop_back_n(_, _)
pop_back_n(v, n) == IF n = 0 \/ v.tks = << >> THEN v ELSE pop_back_n(pop_back(v), n - 1)

\* Vm::process: one turn of the loop removes the tail token, which is then visited
dispatch_pop(v) ==
    [pop_back(v) EXCEPT !.trace = Append(@, [tok |-> Last(v.tks),
                                             args |-> << >>,
                                             scope |-> v.current_scope,
                                             src |-> Last(v.tks_src),
                                             frame |-> ActiveFrame(v)])]

\* history: the tokens the visitor of the dispatched token took with next_token
visited(v) ==
    [v EXCEPT !.trace[Len(trace) + 1].args =
        [i \in 1..(Len(v.consumed) - Len(consumed) - 1) |-> v.consumed[Len(consumed) + 1 + i].tok]]

\* a value token evaluated by as_lit_advanced, then handed to `cont`
value_then(v, tok, cont) ==
    IF tok.k = "Literal"
    THEN LET then(r) == IF r.v.failed # "none" THEN r.v ELSE ApplyCont(r.v, cont, r.lit[1])
         IN then(as_lit_advanced(v, tok))
    ELSE IF tok.k = "Expression"
    THEN CASE tok.ex.e = "InvokeStatic" -> call_static_fn(v, tok.ex.path, tok.ex.params, cont)
    ELSE Panic(v, "Expected a variable value!")

\* Literal::visit
Literal_visit(v, lit) == push_stack(v, lit)

\* Keyword::visit, Keyword::Let
Keyword_Let(v) ==
    IF v.tks = << >> THEN Panic(v, "next_token on an empty chain")
    ELSE LET name == Last(v.tks)
             v1 == pop_back(v)
         IN IF name.k # "Literal" THEN Panic(v1, "Expected a variable name!")
            ELSE IF name.lit.t # "ident" THEN Panic(v1, "Expected an ident name for variable!")
            ELSE IF v1.tks = << >> THEN Panic(v1, "next_token on an empty chain")
            ELSE value_then(pop_back(v1), Last(v1.tks), ContLet(name.lit.id))

\* Keyword::visit, Keyword::Const
Keyword_Const(v) ==
    IF v.tks = << >> THEN Panic(v, "next_token on an empty chain")
    ELSE LET name == Last(v.tks)
             v1 == pop_back(v)
         IN IF name.k # "Literal" THEN Panic(v1, "Expected a variable name!")
            ELSE IF name.lit.t # "ident" THEN v1
            ELSE IF v1.tks = << >> THEN Panic(v1, "next_token on an empty chain")
            ELSE value_then(pop_back(v1), Last(v1.tks), ContConst(name.lit.id))

\* Keyword::visit, Keyword::Return
Keyword_Return(v) ==
    IF v.tks = << >> THEN Panic(v, "next_token on an empty chain")
    ELSE LET tk == Last(v.tks)
             v1 == pop_back(v)
         IN IF tk.k = "Literal" THEN push_stack(v1, tk.lit)
            ELSE IF tk.k = "Expression"
            THEN CASE tk.ex.e = "InvokeStatic" ->
                        call_static_fn(v1, tk.ex.path, tk.ex.params, ContReturn)
            ELSE Panic(v1, "Expected a literal or expression!")

\* the first index j >= i of P with P[j] = tok, or 0
RECURSIVE find_from(_, _, _)
find_from(P, i, tok) ==
    IF i > Len(P) THEN 0 ELSE IF P[i] = tok THEN i ELSE find_from(P, i + 1, tok)

\* the first index in a..b of P that is not an identifier literal, or 0
RECURSIVE first_non_ident(_, _, _)
first_non_ident(P, a, b) ==
    IF a > b THEN 0
    ELSE IF P[a].k = "Literal" /\ P[a].lit.t = "ident" THEN first_non_ident(P, a + 1, b)
    ELSE a

idents_of(P, a, b) == [i \in 1..(b - a + 1) |-> P[a + i - 1].lit.id]

Vm_add_static_fn(v, name, out_ty, param_names, chain) ==
    [v EXCEPT !.scopes[v.current_scope] = add_static_fn(@, name, out_ty, param_names, chain)]

\* the end of Keyword::Function without the test for `this`
Keyword_Function_register_static(v, name, out_ty, param_names, chain) ==
    Vm_add_static_fn(v, name, out_ty, param_names, chain)
\* Vm::add_inst_fn: the structure is looked up by current_struct_name(), the front of
\* struct_names, which holds no name (nothing calls add_struct_name): the unwrap panics
Vm_add_inst_fn(v, name, out_ty, param_names, chain) ==
    IF scope_level(v) # "Struct"
    THEN Panic(v, "Can not add instance function outside of structure!")
    ELSE Panic(v, "called Option::unwrap() on a None value")

\* the end of Keyword::Function: a first parameter `this` makes an instance function,
\* which only a struct scope may hold
Keyword_Function_register(v, name, out_ty, param_names, chain) ==
    IF Len(param_names) > 0 /\ param_names[1] = "this"
    THEN IF scope_level(v) # "Struct"
         THEN Panic(v, "Can not have instance functions outside of structs!")
         ELSE Vm_add_inst_fn(v, name, out_ty, param_names, chain)
    ELSE Vm_add_static_fn(v, name, out_ty, param_names, chain)

\* Keyword::visit, Keyword::Function.  P is the chain in the order next_token
\* returns it; FnFail(k, msg) is the panic after k tokens have been removed.
Keyword_Function(v) ==
    LET P == Reverse(v.tks)
        n == Len(P)
        FnFail(k, msg) == Panic(pop_back_n(v, k), msg)
        skip == IF n >= 1 /\ P[1].k = "Keyword" THEN 1 ELSE 0
        ity == skip + 1
        iname == skip + 2
        ilp == skip + 3
        irp == find_from(P, ilp + 1, RParen)
        lastp == IF irp = 0 THEN n ELSE irp - 1
        bad == first_non_ident(P, ilp + 1, lastp)
        irb == find_from(P, irp + 2, RBracket)
    IN IF n = 0 THEN Panic(v, "No tokens provided!")
       ELSE IF n < ity THEN FnFail(n, "next_token on an empty chain")
       ELSE IF P[ity].k # "Literal" \/ P[ity].lit.t # "typename"
       THEN FnFail(ity, "Expected a type name of function's output type!")
       ELSE IF n < iname THEN FnFail(n, "next_token on an empty chain")
       ELSE IF P[iname].k # "Literal" THEN FnFail(iname, "Expected a function name!")
       ELSE IF P[iname].lit.t = "str" THEN FnFail(iname, "Native functions are not yet supported!")
       ELSE IF P[iname].lit.t # "ident" THEN pop_back_n(v, iname)
       ELSE IF n < ilp THEN FnFail(n, "next_token on an empty chain")
       ELSE IF bad # 0 THEN FnFail(bad, "Did not expect token at function declaration!")
       ELSE IF irp = 0 THEN FnFail(n, "Unexpected end of token chain!")
       ELSE IF n < irp + 1 THEN FnFail(n, "next_token on an empty chain")
       ELSE IF irb = 0 THEN FnFail(n, "Unexpected end of token chain")
       ELSE LET out_ty == P[ity].lit.ty
                name == P[iname].lit.id
                param_names == idents_of(P, ilp + 1, irp - 1)
                chain == SubSeq(P, irp + 2, irb - 1)
                v1 == pop_back_n(v, irb)
            IN Keyword_Function_register(v1, name, out_ty, param_names, chain)

(* ---------------------- expressions and their operands ----------------- *)
BinOp(op, lh, rh) == Expr([e |-> "BinaryOp", op |-> op, lh |-> lh, rh |-> rh])
IfStmt == Expr([e |-> "IfStmt"])
ElifStmt == Expr([e |-> "ElifStmt"])
ElseStmt == Expr([e |-> "ElseStmt"])
WhileStmt == Expr([e |-> "WhileStmt"])

RECURSIVE Expression_visit(_, _)

(* ------------------------- i64, as its eight bytes ---------------------- *)
\* to_be_bytes of a k-byte integer, two's complement for a negative one (the integers
\* of the model stay below 2^31, so the bytes above the low four are the sign's)
to_be_bytes(n, k) ==
    LET digit(m, e) == IF e >= 4 THEN 0 ELSE (m \div (256 ^ e)) % 256
    IN [i \in 1..k |-> IF n >= 0 THEN digit(n, k - i) ELSE 255 - digit(-(n + 1), k - i)]

RECURSIVE be_value(_)
be_value(bs) == IF bs = << >> THEN 0 ELSE be_value(Front(bs)) * 256 + Last(bs)

\* from_be_bytes: the integer when it is below 2^31 in magnitude, else the bytes themselves
from_be_bytes(bs, signed) ==
    LET fits_unsigned ==
            \/ Len(bs) < 4
            \/ /\ \A i \in 1..(Len(bs) - 4) : bs[i] = 0
               /\ bs[Len(bs) - 3] < 128
        fits_negative ==
            /\ Len(bs) >= 4
            /\ \A i \in 1..(Len(bs) - 4) : bs[i] = 255
            /\ bs[Len(bs) - 3] >= 128
        low_bytes == IF Len(bs) < 4 THEN bs ELSE SubSeq(bs, Len(bs) - 3, Len(bs))
    IN IF fits_unsigned THEN [fits |-> TRUE, n |-> be_value(low_bytes)]
       ELSE IF signed /\ fits_negative
            THEN [fits |-> TRUE, n |-> (-be_value([i \in 1..4 |-> 255 - low_bytes[i]])) - 1]
            ELSE [fits |-> FALSE, n |-> bs]

\* Literal::Number of an i64 read back: a value beyond the integers of the model keeps
\* its eight bytes
Number_of(i) == IF i.fits THEN Number(i.n) ELSE [t |-> "num", i64 |-> i.n]

\* the eight bytes of a Literal::Number (two's complement, most significant first)
i64_bytes(lit) == IF "n" \in DOMAIN lit THEN to_be_bytes(lit.n, 8) ELSE lit.i64

I64_MAX == [t |-> "num", i64 |-> <<127, 255, 255, 255, 255, 255, 255, 255>>]
I64_MIN == [t |-> "num", i64 |-> <<128, 0, 0, 0, 0, 0, 0, 0>>]

sign_extend(bs, k) ==
    [i \in 1..k |-> IF i <= k - Len(bs) THEN (IF bs[1] >= 128 THEN 255 ELSE 0)
                    ELSE bs[i - (k - Len(bs))]]

\* a + b + carry modulo 256^Len(a)
RECURSIVE add_bytes(_, _, _)
add_bytes(a, b, carry) ==
    IF a = << >> THEN << >>
    ELSE Append(add_bytes(Front(a), Front(b), (Last(a) + Last(b) + carry) \div 256),
                (Last(a) + Last(b) + carry) % 256)

not_bytes(a) == [i \in 1..Len(a) |-> 255 - a[i]]
zero_bytes(k) == [i \in 1..k |-> 0]
neg_bytes(a) == add_bytes(not_bytes(a), zero_bytes(Len(a)), 1)
sub_bytes(a, b) == add_bytes(a, not_bytes(b), 1)
\* a < b, both unsigned and of one length
less_bytes(a, b) ==
    \E i \in 1..Len(a) : a[i] < b[i] /\ \A j \in 1..(i - 1) : a[j] = b[j]

\* a * b modulo 256^Len(a), column by column from the least significant byte
RECURSIVE column_sum(_, _, _, _)
column_sum(a, b, c, i) ==
    IF i > c THEN 0
    ELSE a[Len(a) - i] * b[Len(b) - (c - i)] + column_sum(a, b, c, i + 1)

RECURSIVE mul_columns(_, _, _, _)
mul_columns(a, b, c, carry) ==
    IF c = Len(a) THEN << >>
    ELSE Append(mul_columns(a, b, c + 1, (column_sum(a, b, c, 0) + carry) \div 256),
                (column_sum(a, b, c, 0) + carry) % 256)

mul_bytes(a, b) == mul_columns(a, b, 0, 0)

\* n / d and n % d of unsigned n and d # 0, one bit of n at a time: the quotient and
\* the remainder after the bits j..0 of one byte, then after the first k bytes of n
RECURSIVE divmod_bits(_, _, _, _)
divmod_bits(qr, d, byte, j) ==
    IF j < 0 THEN qr
    ELSE LET step(r2) ==
                IF less_bytes(r2, d)
                THEN divmod_bits([q |-> add_bytes(qr.q, qr.q, 0), r |-> r2], d, byte, j - 1)
                ELSE divmod_bits([q |-> add_bytes(qr.q, qr.q, 1), r |-> sub_bytes(r2, d)],
                                 d, byte, j - 1)
         IN step(add_bytes(qr.r, qr.r, (byte \div (2 ^ j)) % 2))

RECURSIVE divmod_bytes(_, _, _)
divmod_bytes(n, d, k) ==
    IF k = 0 THEN [q |-> zero_bytes(Len(n)), r |-> zero_bytes(Len(n))]
    ELSE divmod_bits(divmod_bytes(n, d, k - 1), d, n[k], 7)

Number_of_bytes(bs) == Number_of(from_be_bytes(bs, TRUE))

\* `*lnum + rnum`, `-` and `*` on i64: the exact result in sixteen bytes; it overflows
\* when it is not the sign extension of its low eight bytes. With overflow checks the
\* operator panics, without them the result wraps around.
i64_add_sub_mul(op, l, r, checks) ==
    LET a == sign_extend(i64_bytes(l), 16)
        b == sign_extend(i64_bytes(r), 16)
        exact == CASE op = "Add" -> add_bytes(a, b, 0)
                   [] op = "Sub" -> sub_bytes(a, b)
                   [] op = "Mul" -> mul_bytes(a, b)
        of(e) ==
            LET low == SubSeq(e, 9, 16)
            IN IF e # sign_extend(low, 16) /\ checks
               THEN [lit |-> << >>,
                     msg |-> CASE op = "Add" -> "attempt to add with overflow"
                               [] op = "Sub" -> "attempt to subtract with overflow"
                               [] op = "Mul" -> "attempt to multiply with overflow"]
               ELSE [lit |-> <<Number_of_bytes(low)>>, msg |-> ""]
    IN of(exact)

\* `*lnum / rnum` and `%` on i64: a zero divisor and i64::MIN by -1 panic in every
\* build; else the quotient truncates toward zero and the remainder has the sign of
\* the dividend
i64_div_mod(op, l, r) ==
    LET a == i64_bytes(l)
        b == i64_bytes(r)
        abs(x) == LET w == sign_extend(x, 9) IN IF x[1] >= 128 THEN neg_bytes(w) ELSE w
        signed(neg, m) == SubSeq(IF neg THEN neg_bytes(m) ELSE m, 2, 9)
        of(qr) ==
            IF op = "Div" THEN signed((a[1] >= 128) # (b[1] >= 128), qr.q)
            ELSE signed(a[1] >= 128, qr.r)
    IN IF b = zero_bytes(8)
       THEN [lit |-> << >>,
             msg |-> IF op = "Div" THEN "attempt to divide by zero"
                     ELSE "attempt to calculate the remainder with a divisor of zero"]
       ELSE IF a = I64_MIN.i64 /\ b = to_be_bytes(-1, 8)
       THEN [lit |-> << >>,
             msg |-> IF op = "Div" THEN "attempt to divide with overflow"
                     ELSE "attempt to calculate the remainder with overflow"]
       ELSE [lit |-> <<Number_of_bytes(of(divmod_bytes(abs(a), abs(b), 9)))>>,
             msg |-> ""]

\* an operand of a binary operation: a literal is taken as it is, an expression is
\* visited and the top of the literal stack is popped
operand(v, tok) ==
    IF tok.k = "Literal" THEN [v |-> v, lit |-> <<tok.lit>>]
    ELSE IF tok.k = "Expression"
    THEN LET popped(w) ==
                IF w.failed # "none" THEN [v |-> w, lit |-> << >>]
                ELSE IF w.lit_stack = << >>
                THEN [v |-> Panic(w, "pop_stack on an empty literal stack"), lit |-> << >>]
                ELSE [v |-> pop_stack(w), lit |-> <<Last(w.lit_stack)>>]
         IN popped(Expression_visit(v, tok.ex))
    ELSE [v |-> Panic(v, "Invalid operand provided!"), lit |-> << >>]

\* `if let Literal::Ident(name) = lit { resolve_any_var(name) } else { lit }`
resolve_ident(r) ==
    IF r.v.failed # "none" THEN r
    ELSE IF r.lit[1].t = "ident" THEN resolve_any_var(r.v, r.lit[1].id)
    ELSE r

\* both operands evaluated, left first, then both resolved, left first
operands(v, lh, rh) ==
    LET none(w) == [v |-> w, l |-> << >>, r |-> << >>]
        right_resolved(w, l, r) ==
            LET done(b) == IF b.v.failed # "none" THEN none(b.v)
                           ELSE [v |-> b.v, l |-> l, r |-> b.lit]
            IN done(resolve_ident([v |-> w, lit |-> r]))
        left_resolved(w, l, r) ==
            LET then(a) == IF a.v.failed # "none" THEN none(a.v)
                           ELSE right_resolved(a.v, a.lit, r)
            IN then(resolve_ident([v |-> w, lit |-> l]))
        right(a) ==
            IF a.v.failed # "none" THEN none(a.v)
            ELSE LET then(b) == IF b.v.failed # "none" THEN none(b.v)
                                ELSE left_resolved(b.v, a.lit, b.lit)
                 IN then(operand(a.v, rh))
    IN right(operand(v, lh))

\* the outcome of an operator on two resolved operands: the literal, or the panic
Computed(lit) == [lit |-> <<lit>>, msg |-> ""]
Invalid == [lit |-> << >>, msg |-> "Invalid operand provided!"]

\* _visit_impl!("" visitor + lh, rh) on strings and numbers (the chains hold no float
\* and no char)
add_lits(l, r, checks) ==
    IF l.t = "str"
    THEN IF r.t \in {"num", "str"} THEN Computed(String(l.s \o Display(r))) ELSE Invalid
    ELSE IF l.t = "num"
    THEN IF r.t = "num" THEN i64_add_sub_mul("Add", l, r, checks) ELSE Invalid
    ELSE Invalid

\* _visit_impl!(visitor op lh, rh) for -, *, / and %: no string arm
arith_lits(op, l, r, checks) ==
    IF l.t = "num" /\ r.t = "num"
    THEN IF op \in {"Sub", "Mul"} THEN i64_add_sub_mul(op, l, r, checks)
         ELSE i64_div_mod(op, l, r)
    ELSE Invalid

\* the match that ends _bool_impl!(visitor op lh rh)
bool_lits(op, l, r) ==
    IF l.t = "bool" /\ r.t = "bool"
    THEN Computed(Bool(CASE op = "And" -> l.b /\ r.b
                         [] op = "Or" -> l.b \/ r.b
                         [] op = "Eq" -> l.b = r.b
                         [] op = "Neq" -> l.b # r.b))
    ELSE Invalid

\* _lt_gt_impl with `<=` for `<`
lt_lits_or_equal(l, r) ==
    IF l.t = "num" /\ r.t = "num" THEN <<Bool(l.n <= r.n)>> ELSE << >>
\* _lt_gt_impl!(visitor < lh rh) on numbers: << >> is the panic
lt_lits(l, r) ==
    IF l.t = "num" /\ r.t = "num" THEN <<Bool(l.n < r.n)>> ELSE << >>

\* the result of a binary operation pushed on the literal stack
push_result(o, result) ==
    IF o.v.failed # "none" THEN o.v
    ELSE IF result = << >> THEN Panic(o.v, "Invalid operand provided!")
    ELSE push_stack(o.v, result[1])

\* `let d = match ...; visitor.push_stack(d);`
push_outcome(o, out) ==
    IF o.v.failed # "none" THEN o.v
    ELSE IF out.lit = << >> THEN Panic(o.v, out.msg)
    ELSE push_stack(o.v, out.lit[1])

\* _bool_impl! ends with the match itself: its value is dropped, nothing is pushed
drop_outcome(o, out) ==
    IF o.v.failed # "none" THEN o.v
    ELSE IF out.lit = << >> THEN Panic(o.v, out.msg)
    ELSE o.v

\* Expression::visit, BinaryOp::Assign
BinaryOp_Assign(v, lh, rh) ==
    IF lh.k # "Literal" THEN Panic(v, "Expected a variable name to set!")
    ELSE IF lh.lit.t # "ident" THEN Panic(v, "Expected a variable name to set!")
    ELSE IF rh.k = "Literal" THEN ApplyCont(v, ContAssign(lh.lit.id), rh.lit)
    ELSE IF rh.k = "Expression"
    THEN CASE rh.ex.e = "InvokeStatic" ->
                call_static_fn(v, rh.ex.path, rh.ex.params, ContAssign(lh.lit.id))
           [] rh.ex.e = "BinaryOp" ->
                LET store(r) == IF r.v.failed # "none" THEN r.v
                                ELSE ApplyCont(r.v, ContAssign(lh.lit.id), r.lit[1])
                IN store(operand(v, rh))
    ELSE Panic(v, "Invalid operand provided!")

\* Expression::visit, Expression::InvokeStatic
Expression_InvokeStatic(v, path, params) == call_static_fn(v, path, params, ContPush)

\* _binary_op_handler
binary_op_handler(v, op, lh, rh) ==
    CASE op = "Assign" -> BinaryOp_Assign(v, lh, rh)
      [] op = "Add" ->
            LET sum(o) == push_outcome(o, IF o.v.failed # "none" THEN Invalid
                                          ELSE add_lits(o.l[1], o.r[1], v.overflow_checks))
            IN sum(operands(v, lh, rh))
      [] op \in {"Sub", "Div", "Mul", "Mod"} ->
            LET value(o) == push_outcome(o, IF o.v.failed # "none" THEN Invalid
                                            ELSE arith_lits(op, o.l[1], o.r[1],
                                                            v.overflow_checks))
            IN value(operands(v, lh, rh))
      [] op \in {"And", "Or", "Eq", "Neq"} ->
            LET value(o) == drop_outcome(o, IF o.v.failed # "none" THEN Invalid
                                            ELSE bool_lits(op, o.l[1], o.r[1]))
            IN value(operands(v, lh, rh))
      [] op = "Lt" ->
            LET less(o) == push_result(o, IF o.v.failed # "none" THEN << >>
                                          ELSE lt_lits(o.l[1], o.r[1]))
            IN less(operands(v, lh, rh))

(* ------------------------- process_until, blocks ------------------------ *)
\* VecDeque::pop_front
pop_front(v) == [v EXCEPT !.tks = Tail(@), !.tks_src = Tail(@)]

\* VecDeque::insert(at, tk)
insert_token(v, tk, at, src) ==
    IF at > Len(v.tks) THEN Panic(v, "index out of bounds")
    ELSE [v EXCEPT !.tks = SubSeq(@, 1, at) \o <<tk>> \o SubSeq(@, at + 1, Len(@)),
                   !.tks_src = SubSeq(@, 1, at) \o <<src>> \o SubSeq(@, at + 1, Len(@))]

\* process_until removes the head token, which is then visited
dispatch_front(v) ==
    [pop_front(v) EXCEPT !.trace = Append(@, [tok |-> Head(v.tks),
                                              args |-> << >>,
                                              scope |-> v.current_scope,
                                              src |-> Head(v.tks_src),
                                              frame |-> ActiveFrame(v)])]

\* Token::visit
Token_visit(v, tok) ==
    CASE tok.k = "Literal" -> Literal_visit(v, tok.lit)
      [] tok.k = "Keyword" ->
            (CASE tok.kw = "Let" -> Keyword_Let(v)
               [] tok.kw = "Const" -> Keyword_Const(v)
               [] tok.kw = "Return" -> Keyword_Return(v)
               [] tok.kw = "Function" -> Keyword_Function(v))
      [] tok.k = "Expression" -> Expression_visit(v, tok.ex)
      [] OTHER -> v

\* the loop of process_until; a visit that starts a call of a user-defined function
\* (a nested process()) is outside the chains modelled here
RECURSIVE process_until_loop(_, _, _)
process_until_loop(v, amount, actual_amount) ==
    IF v.failed # "none" \/ v.tks = << >> THEN v
    ELSE IF amount > actual_amount THEN v
    ELSE LET again(w) ==
                CASE w.frames = v.frames -> process_until_loop(w, amount + 1, actual_amount)
         IN again(Token_visit(dispatch_front(v), Head(v.tks)))

\* process_until stopping one token early
process_until_one_short(v, until) ==
    IF until <= 1 THEN v ELSE process_until_loop(v, 0, until - 2)
\* Vm::process_until
process_until(v, until) ==
    process_until_loop(v, 0, IF until <= 0 THEN until ELSE until - 1)

\* the index in P of the RBracket that closes the block entered before P[i]
RECURSIVE matching_rbracket(_, _, _)
matching_rbracket(P, i, depth) ==
    IF i > Len(P) THEN 0
    ELSE IF P[i] = RBracket
    THEN IF depth = 0 THEN i ELSE matching_rbracket(P, i + 1, depth - 1)
    ELSE IF P[i] = LBracket THEN matching_rbracket(P, i + 1, depth + 1)
    ELSE matching_rbracket(P, i + 1, depth)

\* `{ body }` taken from the chain with next_token: the body in the order it was
\* taken, and the activations its tokens came from
take_block(v) ==
    LET P == Reverse(v.tks)
        S == Reverse(v.tks_src)
        close == matching_rbracket(P, 2, 0)
        none(w) == [v |-> w, body |-> << >>, srcs |-> << >>]
    IN IF v.failed # "none" THEN none(v)
       ELSE IF v.tks = << >> THEN none(Panic(v, "next_token on an empty chain"))
       ELSE IF P[1] # LBracket THEN none(Panic(pop_back(v), "Expected a block!"))
       ELSE IF close = 0 THEN none(Panic(pop_back_n(v, Len(P)), "next_token on an empty chain"))
       ELSE [v |-> pop_back_n(v, close),
             body |-> SubSeq(P, 2, close - 1),
             srcs |-> SubSeq(S, 2, close - 1)]

RECURSIVE insert_all(_, _, _)
insert_all(v, chain, srcs) ==
    IF chain = << >> THEN v
    ELSE LET rest(w) == IF w.failed # "none" THEN w
                        ELSE insert_all(w, Tail(chain), Tail(srcs))
         IN rest(insert_token(v, Head(chain), 0, Head(srcs)))

\* a body is reversed, re-inserted at position 0 and exactly its tokens are processed
run_block(v, body, srcs) ==
    process_until(insert_all(v, Reverse(body), Reverse(srcs)), Len(body))

\* Number /= 0, Bool, Void = false, anything else = true
truthy(lit) ==
    IF lit.t = "num" THEN lit.n # 0
    ELSE IF lit.t = "bool" THEN lit.b
    ELSE lit.t # "void"

\* the value of a condition token
cond_value(v, tok) ==
    IF tok.k = "Literal" THEN as_lit_advanced(v, tok) ELSE resolve_ident(operand(v, tok))

(* ------------------------------ If / While ------------------------------ *)
\* the ElifStmt / ElseStmt groups that follow a branch that matched are discarded
RECURSIVE skip_branches(_)
skip_branches(v) ==
    IF v.failed # "none" \/ v.tks = << >> THEN v
    ELSE IF Last(v.tks) = ElifStmt
    THEN IF Len(v.tks) < 2 THEN Panic(pop_back(v), "next_token on an empty chain")
         ELSE LET skipped(b) == skip_branches(b.v)
              IN skipped(take_block(pop_back_n(v, 2)))
    ELSE IF Last(v.tks) = ElseStmt
    THEN LET skipped(b) == skip_branches(b.v)
         IN skipped(take_block(pop_back(v)))
    ELSE v

RECURSIVE if_branch(_)
\* the groups after a branch whose condition was falsy
else_branches(v) ==
    IF v.failed # "none" \/ v.tks = << >> THEN v
    ELSE IF Last(v.tks) = ElifStmt THEN if_branch(pop_back(v))
    ELSE IF Last(v.tks) = ElseStmt
    THEN LET run(b) == IF b.v.failed # "none" THEN b.v ELSE run_block(b.v, b.body, b.srcs)
         IN run(take_block(pop_back(v)))
    ELSE v

\* `cond { body }` at the tail of the chain, after IfStmt or ElifStmt
if_branch(v) ==
    IF v.tks = << >> THEN Panic(v, "next_token on an empty chain")
    ELSE LET branch(c, b) ==
                IF b.v.failed # "none" THEN b.v
                ELSE IF truthy(c.lit[1]) THEN skip_branches(run_block(b.v, b.body, b.srcs))
                ELSE else_branches(b.v)
             with(c) == IF c.v.failed # "none" THEN c.v ELSE branch(c, take_block(c.v))
         IN with(cond_value(pop_back(v), Last(v.tks)))

\* Expression::visit, Expression::IfStmt
Expression_IfStmt(v) == if_branch(v)

RECURSIVE while_loop(_, _, _, _)
while_loop(v, cond, body, srcs) ==
    LET again(w) == IF w.failed # "none" THEN w ELSE while_loop(w, cond, body, srcs)
        with(c) == IF c.v.failed # "none" THEN c.v
                   ELSE IF truthy(c.lit[1]) THEN again(run_block(c.v, body, srcs))
                   ELSE push_stack(c.v, Void)
    IN with(cond_value(v, cond))

\* Expression::visit, Expression::WhileStmt
Expression_WhileStmt(v) ==
    IF v.tks = << >> THEN Panic(v, "next_token on an empty chain")
    ELSE LET loop(b) == IF b.v.failed # "none" THEN b.v
                        ELSE while_loop(b.v, Last(v.tks), b.body, b.srcs)
         IN loop(take_block(pop_back(v)))

\* Expression::visit
Expression_visit(v, ex) ==
    CASE ex.e = "BinaryOp" -> binary_op_handler(v, ex.op, ex.lh, ex.rh)
      [] ex.e = "InvokeStatic" -> Expression_InvokeStatic(v, ex.path, ex.params)
      [] ex.e = "IfStmt" -> Expression_IfStmt(v)
      [] ex.e = "WhileStmt" -> Expression_WhileStmt(v)

(* ------------------------- registration of externs ---------------------- *)
Vm_add_extern_fn(v, name, out_ty, param_names, ptr) ==
    [v EXCEPT !.scopes[v.current_scope] = add_extern_fn(@, name, out_ty, param_names, ptr)]

\* extern_fns!(vm { extern fn name(params) -> out_ty; ... })
RECURSIVE extern_fns_inline(_, _)
extern_fns_inline(v, decls) ==
    IF decls = << >> THEN v
    ELSE LET d == Head(decls)
             v1 == [v EXCEPT !.EXTERN_FNS = Append(@, d.name)]
         IN extern_fns_inline(
                Vm_add_extern_fn(v1, d.name, d.out_ty, d.params, Len(v1.EXTERN_FNS)),
                Tail(decls))

\* extern_fns!(vm { scope "s" { extern fn name(params) -> out_ty; ... } })
RECURSIVE extern_fns_scope_body(_, _)
extern_fns_scope_body(r, decls) ==
    IF decls = << >> THEN r
    ELSE LET d == Head(decls)
             table == Append(r.table, d.name)
         IN extern_fns_scope_body(
                [table |-> table,
                 scope |-> add_extern_fn(export(r.scope, d.name), d.name, d.out_ty, d.params,
                                         Len(table))],
                Tail(decls))

extern_fns_scoped(v, scope_name, decls) ==
    LET r == extern_fns_scope_body([table |-> v.EXTERN_FNS, scope |-> NewScope], decls)
    IN push_scope([v EXCEPT !.EXTERN_FNS = r.table], scope_name, r.scope)

Decl(name, params, out_ty) == [name |-> name, params |-> params, out_ty |-> out_ty]

\* lib.rs, test_externs
TestExterns == <<Decl("example_print", <<"name">>, "void"), Decl("add", <<"a", "b">>, "num")>>

\* stdlib/io.rs, __io_feature
IoScopeName == <<"std", "io">>
IoExterns ==
    <<Decl("print", <<"value">>, "void"), Decl("println", <<"value">>, "void"),
      Decl("fmt", <<"pattern", "varargs">>, "str"), Decl("debug", <<"value">>, "void"),
      Decl("debugp", <<"value">>, "void")>>

io_feature(v) == extern_fns_scoped(v, IoScopeName, IoExterns)

(* ------------------------------ Init / Next ---------------------------- *)
\* no Transmute write or read has been made
NoCodec ==
    [platform |-> "little", stage |-> "none", kind |-> "none", obj |-> << >>, buf |-> << >>,
     out |-> << >>]

\* two evaluator threads of the process; the Mutex is free and neither thread is in an
\* extern call or registration
\* anyhow::Result<Token>
Ok(tok) == [ok |-> TRUE, val |-> tok]
Err(msg) == [ok |-> FALSE, err |-> msg]
NoResult == [calls |-> 0, call |-> "none", arg |-> << >>, out |-> << >>]

NoInstance == [schema |-> EmptyMap, inst_vars |-> EmptyMap]

Evaluators == {1, 2}
NoExt ==
    [lock |-> 0, pc |-> [t \in Evaluators |-> "idle"], handler |-> [t \in Evaluators |-> 0],
     calls |-> [t \in Evaluators |-> 0], registered |-> [t \in Evaluators |-> FALSE]]

VmInit ==
    /\ tks = << >>
    /\ lit_stack = << >>
    /\ current_scope = GlobalName
    /\ scopes = [n \in {GlobalName} |-> NewScope]
    /\ scope_types = <<"Global">>
    /\ EXTERN_FNS = << >>
    /\ frames = << >>
    /\ running = FALSE
    /\ failed = "none"
    /\ loads = 0
    /\ uid = 0
    /\ tks_src = << >>
    /\ loaded = << >>
    /\ consumed = << >>
    /\ trace = << >>
    /\ host_calls = << >>
    /\ returned = << >>

Init ==
    /\ VmInit
    /\ codec = NoCodec
    /\ ext = NoExt
    /\ overflow_checks \in BOOLEAN
    /\ api_result = NoResult
    /\ instance = NoInstance

(* the chains the embedder loads *)
GlobalFn(name) == <<"global", name>>
IoFmt == <<"std", "io", "fmt">>

FunctionDecl(out_ty, name, params, body) ==
    <<Kw("Function"), Lit(TypeName(out_ty)), Lit(Ident(name)), LParen>>
        \o [i \in 1..Len(params) |-> Lit(Ident(params[i]))]
        \o <<RParen, LBracket>> \o body \o <<RBracket>>

DeclChain ==
    FunctionDecl("num", "f", << >>, <<Kw("Return"), Lit(Number(1))>>)
        \o FunctionDecl("void", "g", <<"a">>,
                        <<Kw("Let"), Lit(Ident("r")), Lit(Ident("a")), Kw("Return"), Lit(Void)>>)
        \o FunctionDecl("unknown", "h", << >>, <<Kw("Return"), Lit(Number(1))>>)
        \o FunctionDecl("str", "s", << >>, <<Kw("Return"), Lit(Number(1))>>)
        \o FunctionDecl("num", "k", << >>,
                        <<Kw("Return"), InvokeStatic(GlobalFn("f"), << >>)>>)
        \o FunctionDecl("num", "r", << >>,
                        <<Kw("Return"), Lit(Number(1)), Lit(Number(2))>>)
        \o FunctionDecl("void", "e", << >>, << >>)
        \o FunctionDecl("num", "u", << >>,
                        <<Kw("Let"), Lit(Ident("r")), Lit(Ident("x")),
                          Kw("Return"), Lit(Number(1))>>)

Chains ==
    { DeclChain,
      <<Kw("Let"), Lit(Ident("x")), Lit(Number(1))>>,
      <<Kw("Let"), Lit(Ident("x")), Lit(String(<<"a">>))>>,
      <<Kw("Const"), Lit(Ident("x")), Lit(Number(1))>>,
      <<Kw("Const"), Lit(Ident("x")), Lit(Number(2))>>,
      <<Assign("x", Lit(Number(2)))>>,
      <<Assign("x", Lit(String(<<"a">>)))>>,
      <<Kw("Let"), Lit(Ident("y")), Lit(Ident("x")), Whitespace, Lit(Ident("y"))>>,
      <<InvokeStatic(<<"f">>, << >>)>>,
      <<InvokeStatic(<<"f">>, <<Lit(Number(1))>>)>>,
      <<Kw("Let"), Lit(Ident("y")), InvokeStatic(<<"f">>, << >>),
        Kw("Let"), Lit(Ident("b")), Lit(Number(2))>>,
      <<InvokeStatic(<<"g">>, <<Lit(Number(1))>>)>>,
      <<InvokeStatic(<<"h">>, << >>)>>,
      <<InvokeStatic(<<"s">>, << >>)>>,
      <<InvokeStatic(<<"k">>, << >>)>>,
      <<InvokeStatic(<<"r">>, << >>)>>,
      <<Lit(Number(7)), InvokeStatic(<<"e">>, << >>)>>,
      <<InvokeStatic(<<"u">>, << >>)>>,
      <<InvokeStatic(<<"add">>, <<Lit(Number(1)), Lit(Number(2))>>)>>,
      <<InvokeStatic(<<"add">>, <<Lit(Number(1))>>)>>,
      <<InvokeStatic(IoFmt, <<Lit(String(<<"{}", "{}">>)), Lit(Number(1)), Lit(Number(2))>>)>>,
      <<InvokeStatic(IoFmt, <<Lit(String(<<"{}">>)), Lit(Number(1))>>)>>,
      <<InvokeStatic(IoFmt, <<Lit(String(<<"x">>))>>)>> }

Registered(host) == \E i \in 1..Len(EXTERN_FNS) : EXTERN_FNS[i] = host

\* the embedder registers its own host functions (lib.rs, test_externs)
RegisterExterns ==
    /\ loads = 0
    /\ ~Registered("add")
    /\ SetVm(extern_fns_inline(Cur, TestExterns))

\* the embedder adds the IO feature of the standard library
AddIoFeature ==
    /\ loads = 0
    /\ ~Registered("fmt")
    /\ SetVm(io_feature(Cur))

\* the embedder loads a chain into the empty evaluator
LoadChain ==
    /\ ~running
    /\ failed = "none"
    /\ tks = << >>
    /\ loads < MaxLoads
    /\ \E c \in Chains : SetVm([load_chain(Cur, c) EXCEPT !.loads = @ + 1,
                                                        !.loaded = c,
                                                        !.consumed = << >>])

\* the embedder calls Vm::process
Process ==
    /\ ~running
    /\ failed = "none"
    /\ tks # << >>
    /\ running' = TRUE
    /\ UNCHANGED <<tks, lit_stack, current_scope, scopes, scope_types, EXTERN_FNS, frames,
                   failed, loads, uid, tks_src, loaded, consumed, trace, host_calls, returned,
                   codec, ext, overflow_checks, instance, api_result>>

Dispatching == running /\ failed = "none" /\ tks # << >>

\* one turn of the loop of Vm::process, by the kind of the token it removes
VisitLiteral ==
    /\ Dispatching
    /\ Last(tks).k = "Literal"
    /\ SetVm(visited(Literal_visit(dispatch_pop(Cur), Last(tks).lit)))

VisitLet ==
    /\ Dispatching
    /\ Last(tks) = Kw("Let")
    /\ SetVm(visited(Keyword_Let(dispatch_pop(Cur))))

VisitConst ==
    /\ Dispatching
    /\ Last(tks) = Kw("Const")
    /\ SetVm(visited(Keyword_Const(dispatch_pop(Cur))))

VisitFunction ==
    /\ Dispatching
    /\ Last(tks) = Kw("Function")
    /\ SetVm(visited(Keyword_Function(dispatch_pop(Cur))))

VisitReturn ==
    /\ Dispatching
    /\ Last(tks) = Kw("Return")
    /\ SetVm(visited(Keyword_Return(dispatch_pop(Cur))))

VisitAssign ==
    /\ Dispatching
    /\ Last(tks).k = "Expression"
    /\ Last(tks).ex.e = "BinaryOp"
    /\ Last(tks).ex.op = "Assign"
    /\ SetVm(visited(BinaryOp_Assign(dispatch_pop(Cur), Last(tks).ex.lh, Last(tks).ex.rh)))

VisitInvokeStatic ==
    /\ Dispatching
    /\ Last(tks).k = "Expression"
    /\ Last(tks).ex.e = "InvokeStatic"
    /\ SetVm(visited(Expression_InvokeStatic(dispatch_pop(Cur), Last(tks).ex.path,
                                             Last(tks).ex.params)))

\* Token::visit leaves whitespace, brackets and parentheses alone
VisitOther ==
    /\ Dispatching
    /\ Last(tks).k \in {"Whitespace", "LBracket", "RBracket", "LParen", "RParen"}
    /\ SetVm(dispatch_pop(Cur))

\* the process() inside StaticFn::call has drained the chain: the call finishes
CallReturn ==
    /\ running
    /\ failed = "none"
    /\ tks = << >>
    /\ frames # << >>
    /\ SetVm(StaticFn_return(Cur))

\* the process() of the embedder has drained the chain
ProcessDone ==
    /\ running
    /\ failed = "none"
    /\ tks = << >>
    /\ frames = << >>
    /\ running' = FALSE
    /\ UNCHANGED <<tks, lit_stack, current_scope, scopes, scope_types, EXTERN_FNS, frames,
                   failed, loads, uid, tks_src, loaded, consumed, trace, host_calls, returned,
                   codec, ext, overflow_checks, instance, api_result>>

Next ==
    \/ RegisterExterns
    \/ AddIoFeature
    \/ LoadChain
    \/ Process
    \/ VisitLiteral
    \/ VisitLet
    \/ VisitConst
    \/ VisitFunction
    \/ VisitReturn
    \/ VisitAssign
    \/ VisitInvokeStatic
    \/ VisitOther
    \/ CallReturn
    \/ ProcessDone

Spec == Init /\ [][Next]_vars

(* --------------------- the evaluator on If / While chains --------------- *)
MaxFlowLoads == 1

BodyA == <<Assign("a", Lit(Number(1))), Assign("a", Lit(Number(2)))>>
BodyB == <<Assign("b", Lit(Number(1)))>>
BodyB2 == <<Assign("b2", Lit(Number(1)))>>
BodyC == <<Assign("c", Lit(Number(1)))>>
AfterGroup == Assign("d", Lit(Number(1)))

Block(body) == <<LBracket>> \o body \o <<RBracket>>
Elif(c, body) == <<ElifStmt, Lit(c)>> \o Block(body)

\* lib.rs, test_if_else_elif: an If group, any Elif groups, an optional Else group
\* and the token after the last group
IfChains ==
    LET Conds == {Bool(TRUE), Bool(FALSE)}
        Elifs == {<< >>} \cup {Elif(c, BodyB) : c \in Conds \cup {Number(0)}}
                        \cup {Elif(c, BodyB) \o Elif(d, BodyB2) : c \in Conds, d \in Conds}
        Elses == {<< >>, <<ElseStmt>> \o Block(BodyC)}
    IN {<<IfStmt, Lit(c)>> \o Block(BodyA) \o el \o es \o <<AfterGroup>> :
            c \in Conds, el \in Elifs, es \in Elses}

IoDebug == <<"std", "io", "debug">>
WhileBody ==
    <<Assign("i", BinOp("Add", Lit(Ident("i")), Lit(Number(1)))),
      InvokeStatic(IoDebug, <<Lit(Ident("i"))>>)>>
While(n) == <<WhileStmt, BinOp("Lt", Lit(Ident("i")), Lit(Number(n)))>> \o Block(WhileBody)

\* lib.rs, test_while: `let i = 0; while i < n { i = i + 1; debug(i) }`
WhileChains ==
    {<<Kw("Let"), Lit(Ident("i")), Lit(Number(k))>> \o While(n) \o <<AfterGroup>> :
        k \in {0, 5}, n \in {0, 3, 10}}

FlowChains == IfChains \cup WhileChains

LoadFlow ==
    /\ ~running
    /\ failed = "none"
    /\ tks = << >>
    /\ loads < MaxFlowLoads
    /\ \E c \in FlowChains : SetVm([load_chain(Cur, c) EXCEPT !.loads = @ + 1,
                                                            !.loaded = c,
                                                            !.consumed = << >>])

VisitIf ==
    /\ Dispatching
    /\ Last(tks) = IfStmt
    /\ SetVm(visited(Expression_visit(dispatch_pop(Cur), Last(tks).ex)))

VisitWhile ==
    /\ Dispatching
    /\ Last(tks) = WhileStmt
    /\ SetVm(visited(Expression_visit(dispatch_pop(Cur), Last(tks).ex)))

NextFlow ==
    \/ AddIoFeature
    \/ LoadFlow
    \/ Process
    \/ VisitLet
    \/ VisitAssign
    \/ VisitIf
    \/ VisitWhile
    \/ ProcessDone

SpecFlow == Init /\ [][NextFlow]_vars

(* -------------------- Transmute: the byte codec (vm.rs) ------------------ *)
\* the UTF-8 bytes of the texts the codec is exercised with (all ASCII)
as_bytes(s) ==
    CASE s = "" -> << >>
      [] s = "x" -> <<120>>
      [] s = "ab" -> <<97, 98>>
      [] s = "num" -> <<110, 117, 109>>
      [] s = "bool" -> <<98, 111, 111, 108>>
      [] s = "void" -> <<118, 111, 105, 100>>

\* Literal::Float and Literal::Char, which the evaluator's chains do not use: a float is
\* its IEEE-754 bit pattern (8 bytes, most significant first), a char its code point
Float(bits) == [t |-> "float", bits |-> bits]
Char(c) == [t |-> "char", c |-> c]

\* the outcome of a read: Ok(val) with the cursor at pos, or an Err / a panic
Read_ok(val, pos) == [ok |-> TRUE, val |-> val, pos |-> pos]
Read_fail(pos) == [ok |-> FALSE, val |-> << >>, pos |-> pos]

\* Read::read_exact on the cursor
read_exact(buf, pos, k) ==
    IF pos + k > Len(buf) THEN Read_fail(pos)
    ELSE Read_ok(SubSeq(buf, pos + 1, pos + k), pos + k)

\* _int_alloc_impl: write and read of u8, u16, u32, u64 and i64
int_write(n, k) == to_be_bytes(n, k)
int_read(buf, pos, k, signed) ==
    LET of(r) == IF r.ok THEN Read_ok(from_be_bytes(r.val, signed), r.pos) ELSE r
    IN of(read_exact(buf, pos, k))

bool_write(b) == <<IF b THEN 1 ELSE 0>>
bool_read(buf, pos) ==
    LET of(r) == IF r.ok THEN Read_ok(r.val[1] = 1, r.pos) ELSE r
    IN of(read_exact(buf, pos, 1))

\* f64::write and f64::read: the eight bytes of the bit pattern
f64_write(bits) == bits
f64_read(buf, pos) == read_exact(buf, pos, 8)

\* String::from_utf8 on the bytes drawn here: ASCII is valid, and a byte of 128 or more
\* only occurs as 0xFF, which no UTF-8 text contains
from_utf8_ok(bs) == \A i \in 1..Len(bs) : bs[i] < 128

\* mem::transmute of the length as u16: the two bytes in the byte order of the target
native_u16(n, platform) ==
    IF platform = "little" THEN <<n % 256, (n \div 256) % 256>>
    ELSE <<(n \div 256) % 256, n % 256>>

String_write(s, platform) == native_u16(Len(s), platform) \o s

\* String::read: the length is read big-endian, then the bytes 1 .. len + 2 of the WHOLE
\* buffer are taken, wherever the cursor stands; the cursor moves past the length only
String_read(buf, pos) ==
    LET of(r) ==
            IF ~r.ok THEN r
            ELSE IF r.val.n + 2 > Len(buf) THEN Read_fail(r.pos)
            ELSE IF ~from_utf8_ok(SubSeq(buf, 2, r.val.n + 2)) THEN Read_fail(r.pos)
            ELSE Read_ok(SubSeq(buf, 2, r.val.n + 2), r.pos)
    IN of(int_read(buf, pos, 2, FALSE))

\* char::write: encode_utf8 into four zeroed bytes (code points below 128)
char_write(c) == <<c, 0, 0, 0>>

\* char::read: the first character of the WHOLE buffer read as UTF-8; the cursor stays
char_read(buf, pos) ==
    IF ~from_utf8_ok(buf) \/ buf = << >> THEN Read_fail(pos)
    ELSE Read_ok(buf[1], pos)

(* Literal (tks/lit.rs) *)
Literal_tag(t) ==
    CASE t = "void" -> 0
      [] t = "num" -> 1
      [] t = "float" -> 2
      [] t = "str" -> 3
      [] t = "char" -> 4
      [] t = "ident" -> 5
      [] t = "bool" -> 6
      [] t = "typename" -> 7

Literal_write(lit, platform) ==
    <<Literal_tag(lit.t)>> \o
    (CASE lit.t = "void" -> << >>
       [] lit.t = "num" -> int_write(lit.n, 8)
       [] lit.t = "float" -> f64_write(lit.bits)
       [] lit.t = "str" -> String_write(lit.s, platform)
       [] lit.t = "char" -> char_write(lit.c)
       [] lit.t = "ident" -> String_write(lit.id, platform)
       [] lit.t = "bool" -> bool_write(lit.b)
       [] lit.t = "typename" -> String_write(lit.ty, platform))

Literal_read(buf, pos) ==
    LET wrap(r, mk(_)) == IF r.ok THEN Read_ok(mk(r.val), r.pos) ELSE r
        of(tag) ==
            IF ~tag.ok THEN tag
            ELSE CASE tag.val.n = 0 -> Read_ok(Void, tag.pos)
                   [] tag.val.n = 1 -> wrap(int_read(buf, tag.pos, 8, TRUE), Number_of)
                   [] tag.val.n = 2 -> wrap(f64_read(buf, tag.pos), Float)
                   [] tag.val.n = 3 -> wrap(String_read(buf, tag.pos), String)
                   [] tag.val.n = 4 -> wrap(char_read(buf, tag.pos), Char)
                   [] tag.val.n = 5 -> wrap(String_read(buf, tag.pos), Ident)
                   [] tag.val.n = 6 -> wrap(bool_read(buf, tag.pos), Bool)
                   [] tag.val.n = 7 -> wrap(String_read(buf, tag.pos), TypeName)
                   [] OTHER -> Read_fail(tag.pos)
    IN of(int_read(buf, pos, 1, FALSE))

(* Vec<String>, HashMap<String, V>, ExternFn and ContainingScope (vm.rs, var.rs, fns.rs) *)
\* a u32 length read back: one beyond the integers of the model counts as 2^31 - 1, which
\* like it is more elements than any buffer drawn here holds
len_of(i) == IF i.fits THEN i.n ELSE 2147483647

RECURSIVE Vec_String_write_from(_, _, _)
Vec_String_write_from(vec, i, platform) ==
    IF i > Len(vec) THEN << >>
    ELSE String_write(vec[i], platform) \o Vec_String_write_from(vec, i + 1, platform)
Vec_String_write(vec, platform) ==
    int_write(Len(vec), 4) \o Vec_String_write_from(vec, 1, platform)

RECURSIVE Vec_String_read_loop(_, _, _, _)
Vec_String_read_loop(buf, pos, left, vec) ==
    IF left = 0 THEN Read_ok(vec, pos)
    ELSE LET of(r) == IF ~r.ok THEN r
                      ELSE Vec_String_read_loop(buf, r.pos, left - 1, Append(vec, r.val))
         IN of(String_read(buf, pos))
Vec_String_read(buf, pos) ==
    LET of(len) == IF ~len.ok THEN len
                   ELSE Vec_String_read_loop(buf, len.pos, len_of(len.val), << >>)
    IN of(int_read(buf, pos, 4, FALSE))

ExternFn_write(f, platform) ==
    String_write(f.out_ty, platform) \o Vec_String_write(f.param_names, platform)
        \o int_write(f.handler, 8)

ExternFn_read(buf, pos) ==
    LET handler(out_ty, param_names, h) ==
            IF ~h.ok THEN h
            ELSE IF h.val.fits
                 THEN Read_ok(ExternFn_new(out_ty.val, param_names.val, h.val.n), h.pos)
                 ELSE Read_ok([out_ty |-> out_ty.val, param_names |-> param_names.val,
                               u64 |-> h.val.n], h.pos)
        params(out_ty, param_names) ==
            IF ~param_names.ok THEN param_names
            ELSE handler(out_ty, param_names, int_read(buf, param_names.pos, 8, FALSE))
        of(out_ty) ==
            IF ~out_ty.ok THEN out_ty
            ELSE params(out_ty, Vec_String_read(buf, out_ty.pos))
    IN of(String_read(buf, pos))

\* V::write and V::read for the value types of the maps of a scope; the scopes drawn
\* here hold no static or instance functions and no structures
Value_write(ty, val, platform) ==
    CASE ty = "Literal" -> Literal_write(val, platform)
      [] ty = "ExternFn" -> ExternFn_write(val, platform)
      [] ty = "Vec<String>" -> Vec_String_write(val, platform)
Value_read(ty, buf, pos) ==
    CASE ty = "Literal" -> Literal_read(buf, pos)
      [] ty = "ExternFn" -> ExternFn_read(buf, pos)
      [] ty = "Vec<String>" -> Vec_String_read(buf, pos)

_write_str(str, platform) == native_u16(Len(str), platform) \o str

\* the entries in the order the HashMap iterates them (the maps drawn here hold at most
\* one entry, so no order is chosen)
RECURSIVE HashMap_write_from(_, _, _, _)
HashMap_write_from(map, keys, ty, platform) ==
    IF keys = {} THEN << >>
    ELSE LET k == CHOOSE x \in keys : TRUE
         IN _write_str(k, platform) \o Value_write(ty, map[k], platform)
                \o HashMap_write_from(map, keys \ {k}, ty, platform)
HashMap_write(map, ty, platform) ==
    int_write(Cardinality(DOMAIN map), 4) \o HashMap_write_from(map, DOMAIN map, ty, platform)

\* HashMap::read: map.insert(key, value).unwrap() panics when the key is new, because
\* insert then returns None
RECURSIVE HashMap_read_loop(_, _, _, _, _)
HashMap_read_loop(buf, pos, left, ty, map) ==
    IF left = 0 THEN Read_ok(map, pos)
    ELSE LET insert(key, value) ==
                 IF ~value.ok THEN value
                 ELSE IF ~Has(map, key.val) THEN Read_fail(value.pos)
                 ELSE HashMap_read_loop(buf, value.pos, left - 1, ty,
                                        Put(map, key.val, value.val))
             of(key) == IF ~key.ok THEN key
                        ELSE insert(key, Value_read(ty, buf, key.pos))
         IN of(String_read(buf, pos))
HashMap_read(buf, pos, ty) ==
    LET of(len) == IF ~len.ok THEN len
                   ELSE HashMap_read_loop(buf, len.pos, len_of(len.val), ty, EmptyMap)
    IN of(int_read(buf, pos, 4, FALSE))

\* the empty maps of the function and structure tables
Boxed_write(map) == CASE DOMAIN map = {} -> int_write(0, 4)
Boxed_read(buf, pos) ==
    LET of(len) == CASE ~len.ok -> len
                     [] len.ok /\ len_of(len.val) = 0 -> Read_ok(EmptyMap, len.pos)
    IN of(int_read(buf, pos, 4, FALSE))

ContainingScope_write(sc, platform) ==
    HashMap_write(sc.mutables, "Literal", platform)
        \o HashMap_write(sc.consts, "Literal", platform)
        \o HashMap_write(sc.consts, "Literal", platform)
        \o Boxed_write(sc.static_fns)
        \o Boxed_write(sc.inst_fns)
        \o Vec_String_write(sc.exports, platform)
        \o HashMap_write(sc.imports, "Vec<String>", platform)
        \o Boxed_write(sc.structs)

ContainingScope_read(buf) ==
    LET structs(mu, co, st, ins, ex, ef, im, r) ==
            IF ~r.ok THEN r
            ELSE Read_ok([mutables |-> mu.val, consts |-> co.val, static_fns |-> st.val,
                          inst_fns |-> ins.val, exports |-> ex.val, extern_fns |-> ef.val,
                          imports |-> im.val, structs |-> r.val], r.pos)
        imports(mu, co, st, ins, ex, ef, r) ==
            IF ~r.ok THEN r ELSE structs(mu, co, st, ins, ex, ef, r, Boxed_read(buf, r.pos))
        extern_fns(mu, co, st, ins, ex, r) ==
            IF ~r.ok THEN r
            ELSE imports(mu, co, st, ins, ex, r, HashMap_read(buf, r.pos, "Vec<String>"))
        exports(mu, co, st, ins, r) ==
            IF ~r.ok THEN r
            ELSE extern_fns(mu, co, st, ins, r, HashMap_read(buf, r.pos, "ExternFn"))
        inst_fns(mu, co, st, r) ==
            IF ~r.ok THEN r ELSE exports(mu, co, st, r, Vec_String_read(buf, r.pos))
        static_fns(mu, co, r) ==
            IF ~r.ok THEN r ELSE inst_fns(mu, co, r, Boxed_read(buf, r.pos))
        consts(mu, r) ==
            IF ~r.ok THEN r ELSE static_fns(mu, r, Boxed_read(buf, r.pos))
        mutables(r) ==
            IF ~r.ok THEN r ELSE consts(r, HashMap_read(buf, r.pos, "Literal"))
    IN mutables(HashMap_read(buf, 0, "Literal"))

(* the discriminants of Keyword, BinaryOp, UnaryOp and Expression (tks/kw.rs, ops.rs, expr.rs) *)
Keywords == <<"Struct", "Export", "Import", "Let", "Const", "Function", "Return">>
BinaryOps == <<"Assign", "Add", "Sub", "Div", "Mul", "Mod", "And", "Or", "Eq", "Neq",
               "BitAnd", "BitOr", "BitXor", "BitRsh", "BitLsh">>
UnaryOps == <<"Neg", "Rev">>
Expressions == <<"BinaryOp", "UnaryOp", "StaticAccess", "InstanceAccess", "InvokeStatic",
                 "InvokeInstance", "InvokeBuiltin">>
Literals == <<"void", "num", "float", "str", "char", "ident", "bool", "typename">>

\* the position of a variant in a table whose variants write 0x00, 0x01, ... in order
index_of(table, variant) == CHOOSE i \in 1..Len(table) : table[i] = variant

Keyword_write(kw) == <<index_of(Keywords, kw) - 1>>
Keyword_read(buf) ==
    LET of(tag) == IF tag.ok /\ tag.val.n < Len(Keywords)
                   THEN Read_ok(Keywords[tag.val.n + 1], tag.pos) ELSE Read_fail(tag.pos)
    IN of(int_read(buf, 0, 1, FALSE))

BinaryOp_write(op) == <<index_of(BinaryOps, op) - 1>>
BinaryOp_read(buf) ==
    LET of(tag) == IF tag.ok /\ tag.val.n < Len(BinaryOps)
                   THEN Read_ok(BinaryOps[tag.val.n + 1], tag.pos) ELSE Read_fail(tag.pos)
    IN of(int_read(buf, 0, 1, FALSE))

UnaryOp_write(op) == <<index_of(UnaryOps, op) - 1>>
UnaryOp_read(buf) ==
    LET of(tag) == IF tag.ok /\ tag.val.n < Len(UnaryOps)
                   THEN Read_ok(UnaryOps[tag.val.n + 1], tag.pos) ELSE Read_fail(tag.pos)
    IN of(int_read(buf, 0, 1, FALSE))

\* the first byte Expression::write emits, and the variant Expression::read picks for it
Expression_write_tag(e) ==
    CASE e = "BinaryOp" -> <<0>>
      [] e = "UnaryOp" -> <<1>>
      [] e = "StaticAccess" -> <<2>>
      [] e = "InstanceAccess" -> <<2>>
      [] e = "InvokeStatic" -> <<3>>
      [] e = "InvokeInstance" -> <<4>>
      [] e = "InvokeBuiltin" -> <<5>>
Expression_read_tag(buf) ==
    LET of(tag) ==
            IF ~tag.ok THEN tag
            ELSE CASE tag.val.n = 0 -> Read_ok("BinaryOp", tag.pos)
                   [] tag.val.n = 1 -> Read_ok("UnaryOp", tag.pos)
                   [] tag.val.n = 2 -> Read_ok("InstanceAccess", tag.pos)
                   [] tag.val.n = 3 -> Read_ok("InvokeStatic", tag.pos)
                   [] tag.val.n = 4 -> Read_ok("InvokeInstance", tag.pos)
                   [] tag.val.n = 5 -> Read_ok("InvokeBuiltin", tag.pos)
                   [] OTHER -> Read_fail(tag.pos)
    IN of(int_read(buf, 0, 1, FALSE))

\* the variant of a literal, with the smallest payload of its kind
Literal_of(t) ==
    CASE t = "void" -> Void
      [] t = "num" -> Number(0)
      [] t = "float" -> Float(to_be_bytes(0, 8))
      [] t = "str" -> String(as_bytes(""))
      [] t = "char" -> Char(120)
      [] t = "ident" -> Ident(as_bytes(""))
      [] t = "bool" -> Bool(FALSE)
      [] t = "typename" -> TypeName(as_bytes(""))

Families == <<"Literal", "Keyword", "BinaryOp", "UnaryOp", "Expression">>
Variants(family) ==
    CASE family = "Literal" -> Literals
      [] family = "Keyword" -> Keywords
      [] family = "BinaryOp" -> BinaryOps
      [] family = "UnaryOp" -> UnaryOps
      [] family = "Expression" -> Expressions

\* what write emits for a variant: all its bytes for a literal, the discriminant alone
\* for an expression, whose operands are not drawn
Variant_write(family, variant, platform) ==
    CASE family = "Literal" -> Literal_write(Literal_of(variant), platform)
      [] family = "Keyword" -> Keyword_write(variant)
      [] family = "BinaryOp" -> BinaryOp_write(variant)
      [] family = "UnaryOp" -> UnaryOp_write(variant)
      [] family = "Expression" -> Expression_write_tag(variant)

\* the variant read picks
variant_of(family, buf) ==
    CASE family = "Literal" ->
             (LET of(r) == IF r.ok THEN Read_ok(r.val.t, r.pos) ELSE r
              IN of(Literal_read(buf, 0)))
      [] family = "Keyword" -> Keyword_read(buf)
      [] family = "BinaryOp" -> BinaryOp_read(buf)
      [] family = "UnaryOp" -> UnaryOp_read(buf)
      [] family = "Expression" -> Expression_read_tag(buf)

(* std::mem transmute (stdlib/mem.rs) *)
transmute(params, platform) ==
    LET read_as(ty, buf) ==
            LET wrap(r, mk(_)) == IF r.ok THEN Read_ok(mk(r.val), r.pos) ELSE r
            IN CASE ty = as_bytes("num") -> wrap(int_read(buf, 0, 8, TRUE), Number_of)
                 [] ty = as_bytes("bool") -> wrap(bool_read(buf, 0), Bool)
                 [] ty = as_bytes("void") -> Read_ok(Void, 0)
    IN IF Len(params) < 2 \/ Last(params).t # "typename" THEN Read_fail(0)
       ELSE read_as(Last(params).ty, Literal_write(Head(params), platform))

(* ---------------------- the codec as a state machine --------------------- *)
Platforms == {"little", "big"}

CodecLiterals ==
    <<Void, Number(0), Number(1), Number(120000), Number(-1),
      Float(to_be_bytes(0, 8)), Float(<<63, 248, 0, 0, 0, 0, 0, 0>>),
      String(as_bytes("")), String(as_bytes("x")), String(as_bytes("ab")),
      Char(120), Ident(as_bytes("x")), Ident(as_bytes("ab")),
      Bool(TRUE), Bool(FALSE), TypeName(as_bytes("num")), TypeName(as_bytes(""))>>

\* scopes with at most one entry in one or two of their tables
CodecScopes ==
    <<NewScope,
      [NewScope EXCEPT !.mutables = Put(@, as_bytes("x"), Number(1))],
      [NewScope EXCEPT !.mutables = Put(@, as_bytes(""), Void)],
      [NewScope EXCEPT !.consts = Put(@, as_bytes("x"), Bool(TRUE))],
      [NewScope EXCEPT !.exports = <<as_bytes("x")>>],
      [NewScope EXCEPT !.exports = <<as_bytes("")>>],
      [NewScope EXCEPT !.extern_fns =
           Put(@, as_bytes("x"), ExternFn_new(as_bytes("num"), << >>, 1))],
      [NewScope EXCEPT !.imports = Put(@, as_bytes("ab"), <<as_bytes("x")>>)],
      [NewScope EXCEPT !.mutables = Put(@, as_bytes("x"), Number(1)),
                       !.exports = <<as_bytes("x")>>]>>

TransmuteTypes == <<"num", "bool", "void">>
TransmuteValues == <<Number(0), Number(1), Number(120000), Number(-1), Bool(TRUE)>>

vm_vars == <<tks, lit_stack, current_scope, scopes, scope_types, EXTERN_FNS, frames,
             running, failed, loads, uid, tks_src, loaded, consumed, trace, host_calls,
             returned, ext, overflow_checks, instance, api_result>>

Written(kind, obj, buf) ==
    [codec EXCEPT !.kind = kind, !.stage = "written", !.obj = obj, !.buf = buf]
ReadBack(out) == [codec EXCEPT !.stage = "read", !.out = out]

WriteLiteral ==
    /\ codec.stage = "none"
    /\ \E i \in 1..Len(CodecLiterals) :
           codec' = Written("Literal", CodecLiterals[i],
                            Literal_write(CodecLiterals[i], codec.platform))
    /\ UNCHANGED vm_vars

ReadLiteral ==
    /\ codec.stage = "written"
    /\ codec.kind = "Literal"
    /\ codec' = ReadBack(Literal_read(codec.buf, 0))
    /\ UNCHANGED vm_vars

WriteScope ==
    /\ codec.stage = "none"
    /\ \E i \in 1..Len(CodecScopes) :
           codec' = Written("Scope", CodecScopes[i],
                            ContainingScope_write(CodecScopes[i], codec.platform))
    /\ UNCHANGED vm_vars

ReadScope ==
    /\ codec.stage = "written"
    /\ codec.kind = "Scope"
    /\ codec' = ReadBack(ContainingScope_read(codec.buf))
    /\ UNCHANGED vm_vars

WriteVariant ==
    /\ codec.stage = "none"
    /\ \E f \in 1..Len(Families) : \E i \in 1..Len(Variants(Families[f])) :
           codec' = Written("Variant",
                            [family |-> Families[f], variant |-> Variants(Families[f])[i]],
                            Variant_write(Families[f], Variants(Families[f])[i],
                                          codec.platform))
    /\ UNCHANGED vm_vars

ReadVariant ==
    /\ codec.stage = "written"
    /\ codec.kind = "Variant"
    /\ codec' = ReadBack(variant_of(codec.obj.family, codec.buf))
    /\ UNCHANGED vm_vars

\* a program calls std::mem transmute(value, ty)
Transmute ==
    /\ codec.stage = "none"
    /\ \E i \in 1..Len(TransmuteValues) : \E j \in 1..Len(TransmuteTypes) :
           LET params == <<TransmuteValues[i], TypeName(as_bytes(TransmuteTypes[j]))>>
           IN codec' = [codec EXCEPT !.kind = "Transmute", !.stage = "read",
                                     !.obj = params,
                                     !.buf = Literal_write(Head(params), codec.platform),
                                     !.out = transmute(params, codec.platform)]
    /\ UNCHANGED vm_vars

InitCodec ==
    /\ VmInit
    /\ \E p \in Platforms : codec = [NoCodec EXCEPT !.platform = p]
    /\ ext = NoExt
    /\ overflow_checks \in BOOLEAN
    /\ api_result = NoResult
    /\ instance = NoInstance

NextCodec ==
    \/ WriteLiteral
    \/ ReadLiteral
    \/ WriteScope
    \/ ReadScope
    \/ WriteVariant
    \/ ReadVariant
    \/ Transmute

SpecCodec == InitCodec /\ [][NextCodec]_vars

(* ------------------------- Import chains (tks/kw.rs) --------------------- *)
MaxImportLoads == 1

\* a qualified identifier, as the sequence of the segments "::" separates
Qualified(segments) == Ident(segments)

\* Vm::import
Vm_import(v, from, name) == [v EXCEPT !.scopes[v.current_scope] = import(@, from, name)]

\* Keyword::visit, Keyword::Import: the identifier is popped from the literal stack and
\* split at every "::"; segment 0 is the source scope and segment 1 the name
Keyword_Import(v) ==
    IF v.lit_stack = << >> THEN Panic(v, "pop_stack on an empty stack")
    ELSE LET name == Last(v.lit_stack)
             v1 == pop_stack(v)
         IN IF name.t # "ident" THEN Panic(v1, "Expected an ident to be imported!")
            ELSE IF Len(name.id) < 2 THEN Panic(v1, "unwrap of a missing segment")
            ELSE Vm_import(v1, <<name.id[1]>>, name.id[2])

\* a scope "lib" the embedder builds and pushes, binding n in one of the namespaces
LibScopeName == <<"lib">>
LibScopes ==
    <<add_const(NewScope, "n", Number(5)),
      add_var(NewScope, "n", Number(5)),
      add_static_fn(NewScope, "n", "num", << >>, <<Kw("Return"), Lit(Number(5))>>),
      add_var(add_const(NewScope, "n", Number(5)), "n", Number(6))>>

IoPrint == <<"std", "io", "print">>
ImportChains ==
    { <<Kw("Import"), Lit(Qualified(IoPrint)), InvokeStatic(<<"print">>, <<Lit(String(<<"x">>))>>)>>,
      <<Lit(Qualified(IoPrint)), Kw("Import"), InvokeStatic(<<"print">>, <<Lit(String(<<"x">>))>>)>>,
      <<Lit(Qualified(<<"lib", "n">>)), Kw("Import"), Kw("Let"), Lit(Ident("y")), Lit(Ident("n"))>>,
      <<Lit(Qualified(<<"lib", "n">>)), Kw("Import"), InvokeStatic(<<"n">>, << >>)>> }

\* the embedder pushes the scope "lib"
PushLib ==
    /\ loads = 0
    /\ ~Has(scopes, LibScopeName)
    /\ \E i \in 1..Len(LibScopes) : SetVm(push_scope(Cur, LibScopeName, LibScopes[i]))

LoadImport ==
    /\ ~running
    /\ failed = "none"
    /\ tks = << >>
    /\ loads < MaxImportLoads
    /\ \E c \in ImportChains : SetVm([load_chain(Cur, c) EXCEPT !.loads = @ + 1,
                                                              !.loaded = c,
                                                              !.consumed = << >>])

VisitImport ==
    /\ Dispatching
    /\ Last(tks) = Kw("Import")
    /\ SetVm(visited(Keyword_Import(dispatch_pop(Cur))))

NextImport ==
    \/ AddIoFeature
    \/ PushLib
    \/ LoadImport
    \/ Process
    \/ VisitLiteral
    \/ VisitImport
    \/ VisitLet
    \/ VisitInvokeStatic
    \/ VisitReturn
    \/ CallReturn
    \/ ProcessDone

SpecImport == Init /\ [][NextImport]_vars

(* ------------------------ instance functions --------------------------- *)
MaxDeclLoads == 2
DeclParams == {<< >>, <<"a">>, <<"this">>, <<"this", "a">>, <<"a", "this">>}
DeclChains ==
    {FunctionDecl(out_ty, name, params, <<Kw("Return"), Lit(Number(1))>>) :
        out_ty \in {"num", "void"}, name \in {"f", "m"}, params \in DeclParams}

LoadDecl ==
    /\ ~running
    /\ failed = "none"
    /\ tks = << >>
    /\ loads < MaxDeclLoads
    /\ \E c \in DeclChains : SetVm([load_chain(Cur, c) EXCEPT !.loads = @ + 1,
                                                            !.loaded = c,
                                                            !.consumed = << >>])

NextDecl == LoadDecl \/ Process \/ VisitFunction \/ ProcessDone

SpecDecl == Init /\ [][NextDecl]_vars

(* ----------------------- bodies with nested blocks ---------------------- *)
MaxBodyLoads == 1
DeclBodies ==
    { << >>,
      <<Kw("Return"), Lit(Number(1))>>,
      <<Lit(Number(3)), Kw("Return"), Lit(Number(1))>>,
      <<LBracket, Lit(Number(1)), RBracket, Kw("Return"), Lit(Number(2))>>,
      <<Lit(Number(3)), LBracket, RBracket>>,
      <<LBracket, RBracket, Lit(Number(3))>>,
      <<IfStmt, Lit(Bool(TRUE)), LBracket, Kw("Return"), Lit(Number(1)), RBracket,
        Kw("Return"), Lit(Number(2))>> }
BodyChains ==
    {FunctionDecl(out_ty, "f", params, body) :
        out_ty \in {"num", "void"}, params \in {<< >>, <<"a">>, <<"a", "b">>},
        body \in DeclBodies}

LoadBody ==
    /\ ~running
    /\ failed = "none"
    /\ tks = << >>
    /\ loads < MaxBodyLoads
    /\ \E c \in BodyChains : SetVm([load_chain(Cur, c) EXCEPT !.loads = @ + 1,
                                                            !.loaded = c,
                                                            !.consumed = << >>])

NextBody ==
    LoadBody \/ Process \/ VisitFunction \/ VisitLiteral \/ VisitReturn \/ VisitOther
        \/ ProcessDone

SpecBody == Init /\ [][NextBody]_vars

(* ------------------------- structure instances -------------------------- *)
\* StructureTemplate::reassign_var
reassign_var(template, this, name, new) ==
    IF Has(template, name) /\ type_str(new, template[name])
    THEN Put(this, name, new)
    ELSE this

\* StructureTemplate::add_inst_var
add_inst_var(template, this, name, value) == Put(this, name, value)

\* the schemas a template can hold (with_type and from_chain leave it empty, read fills
\* it), and the writes drawn
Schemas ==
    { EmptyMap, [n \in {"x"} |-> "num"], [n \in {"x", "y"} |-> IF n = "x" THEN "num" ELSE "bool"] }
InstNames == {"x", "y"}
InstValues == {Number(1), Number(2), Bool(TRUE), Ident("z")}

InitStruct ==
    /\ VmInit
    /\ codec = NoCodec
    /\ ext = NoExt
    /\ overflow_checks \in BOOLEAN
    /\ api_result = NoResult
    /\ \E sch \in Schemas : instance = [schema |-> sch, inst_vars |-> EmptyMap]

struct_unchanged ==
    UNCHANGED <<tks, lit_stack, current_scope, scopes, scope_types, EXTERN_FNS, frames, running,
                failed, loads, uid, tks_src, loaded, consumed, trace, host_calls, returned,
                codec, ext, overflow_checks, api_result>>

ReassignVar ==
    /\ \E name \in InstNames : \E new \in InstValues :
            instance' = [instance EXCEPT !.inst_vars = reassign_var(instance.schema, @, name, new)]
    /\ struct_unchanged

AddInstVar ==
    /\ \E name \in InstNames : \E value \in InstValues :
            instance' = [instance EXCEPT !.inst_vars = add_inst_var(instance.schema, @, name, value)]
    /\ struct_unchanged

NextStruct == ReassignVar \/ AddInstVar

SpecStruct == InitStruct /\ [][NextStruct]_vars

(* ---------------------- static functions of structures ------------------ *)
MaxTemplateLoads == 2

\* a function of a structure that calls another one by its qualified name
Calls(str, name) == <<InvokeStatic(GlobalName \o <<str, ".", name>>, << >>)>>

\* ContainingScope::add_static_fn on the scope of the statics of a template
S_scope ==
    add_static_fn(
        add_static_fn(
            add_static_fn(
                add_static_fn(NewScope, "f", "num", << >>, <<Kw("Return"), Lit(Number(1))>>),
                "g", "num", << >>, Calls("S", "f")),
            "r", "num", << >>, Calls("S", "r")),
        "t", "num", << >>, Calls("T", "f"))
T_scope ==
    add_static_fn(
        add_static_fn(NewScope, "f", "num", <<"a">>, <<Kw("Return"), Lit(Ident("a"))>>),
        "s", "num", << >>, Calls("S", "f"))

Templates == [S |-> StructureTemplate("S", S_scope, 1), T |-> StructureTemplate("T", T_scope, 2)]

\* the embedder registers a template in the global scope under its type name
AddTemplate ==
    /\ ~running
    /\ failed = "none"
    /\ tks = << >>
    /\ \E name \in DOMAIN Templates :
          /\ ~Has(scopes[GlobalName].structs, name)
          /\ SetVm([Cur EXCEPT !.scopes[GlobalName] = add_struct(@, name, Templates[name])])

TemplateChains ==
    { <<InvokeStatic(str \o <<".", name>>, params)>> :
        str \in {<<"S">>, <<"T">>, GlobalName \o <<"S">>, GlobalName \o <<"T">>},
        name \in {"f", "g", "r", "s", "t"},
        params \in {<< >>, <<Lit(Number(2))>>} }

LoadTemplateCall ==
    /\ ~running
    /\ failed = "none"
    /\ tks = << >>
    /\ loads < MaxTemplateLoads
    /\ \E c \in TemplateChains : SetVm([load_chain(Cur, c) EXCEPT !.loads = @ + 1,
                                                                !.loaded = c,
                                                                !.consumed = << >>])

\* the build whose Mutex::lock panics on a lock the thread holds, instead of blocking
RelockPanics ==
    /\ failed = WaitLock
    /\ failed' = RelockPanic
    /\ UNCHANGED <<tks, lit_stack, current_scope, scopes, scope_types, EXTERN_FNS, frames,
                   running, loads, uid, tks_src, loaded, consumed, trace, host_calls,
                   returned, codec, ext, overflow_checks, instance, api_result>>

NextTemplate ==
    AddTemplate \/ LoadTemplateCall \/ Process \/ VisitInvokeStatic \/ VisitReturn
        \/ CallReturn \/ ProcessDone \/ RelockPanics

SpecTemplate == Init /\ [][NextTemplate]_vars

(* --------------------------- the token chain ---------------------------- *)
MaxTokenLoads == 2
MaxTokenCalls == 4

\* Vm::next_token: `Ok(self.tks.pop_back().unwrap())`; out is << >> when it panics
next_token(v) ==
    IF v.tks = << >>
    THEN [v |-> Panic(v, "called Option::unwrap() on a None value"), out |-> << >>]
    ELSE [v |-> pop_back(v), out |-> <<Ok(Last(v.tks))>>]

\* Vm::peek_token: the first token of the reversed clone of the chain
peek_token(v) ==
    LET tks_clone == v.tks
        iter == Reverse(tks_clone)
    IN IF iter # << >> THEN [v |-> v, out |-> <<Ok(Head(iter))>>]
       ELSE [v |-> v, out |-> <<Err("No tokens provided!")>>]

TokenChains ==
    LET Toks == {Lit(Number(1)), Kw("Let"), Whitespace}
    IN {<<a>> : a \in Toks} \cup {<<a, b>> : a \in Toks, b \in Toks}

LoadTokens ==
    /\ ~running
    /\ failed = "none"
    /\ tks = << >>
    /\ loads < MaxTokenLoads
    /\ \E c \in TokenChains : SetVm([load_chain(Cur, c) EXCEPT !.loads = @ + 1,
                                                             !.loaded = c,
                                                             !.consumed = << >>])

Called(name, arg, r) ==
    /\ SetVmState(r.v)
    /\ api_result' = [calls |-> api_result.calls + 1, call |-> name, arg |-> arg, out |-> r.out]

\* the embedder calls next_token
CallNextToken ==
    /\ ~running
    /\ failed = "none"
    /\ api_result.calls < MaxTokenCalls
    /\ Called("next_token", << >>, next_token(Cur))

\* the embedder calls peek_token
CallPeekToken ==
    /\ ~running
    /\ failed = "none"
    /\ api_result.calls < MaxTokenCalls
    /\ Called("peek_token", << >>, peek_token(Cur))

NextToken == LoadTokens \/ CallNextToken \/ CallPeekToken

SpecToken == Init /\ [][NextToken]_vars

(* ----------------------- process_until by the embedder ----------------- *)
MaxUntilLoads == 1
MaxUntil == 3
UntilChains ==
    LET Toks == {Lit(Number(1)), Lit(Number(2)), Whitespace}
    IN {<< >>} \cup {<<a>> : a \in Toks} \cup {<<a, b>> : a \in Toks, b \in Toks}
         \cup {<<a, b, Lit(Number(3))>> : a \in Toks, b \in Toks}

LoadUntil ==
    /\ ~running
    /\ failed = "none"
    /\ tks = << >>
    /\ loads < MaxUntilLoads
    /\ \E c \in UntilChains : SetVm([load_chain(Cur, c) EXCEPT !.loads = @ + 1,
                                                             !.loaded = c,
                                                             !.consumed = << >>])

\* the embedder calls process_until(n)
CallProcessUntil ==
    /\ ~running
    /\ failed = "none"
    /\ loads > 0
    /\ api_result.calls = 0
    /\ \E n \in 0..MaxUntil :
            Called("process_until", <<n>>, [v |-> process_until(Cur, n), out |-> << >>])

NextUntil == LoadUntil \/ CallProcessUntil

SpecUntil == Init /\ [][NextUntil]_vars

(* ---------------------- process_between by the embedder ---------------- *)
MaxBetweenLoads == 1
MaxBetweenCalls == 2
MaxBetween == 4

\* Vm::process run to its end, on a chain that calls no user-defined function
RECURSIVE process_loop(_)
process_loop(v) ==
    IF v.failed # "none" \/ v.tks = << >> THEN v
    ELSE LET again(w) == CASE w.frames = v.frames -> process_loop(w)
         IN again(Token_visit(dispatch_pop(v), Last(v.tks)))

\* #[derive(Clone)] on Vm: tks, lit_stack, current_scope and scope_types are copied; the
\* scope map is copied too, but each ContainingScope is behind an Arc that the clone
\* shares, so what the clone writes into an existing scope shows in the caller
shared_scopes(v, another) ==
    [n \in DOMAIN v.scopes |-> IF Has(another.scopes, n) THEN another.scopes[n] ELSE v.scopes[n]]

\* what the caller is left with when the clone has run; a panic of the clone unwinds
\* through the caller
after_clone(v, another) ==
    [v EXCEPT !.scopes = shared_scopes(v, another),
              !.EXTERN_FNS = another.EXTERN_FNS,
              !.failed = another.failed,
              !.running = IF another.failed # "none" THEN FALSE ELSE @,
              !.uid = another.uid,
              !.consumed = another.consumed,
              !.trace = another.trace,
              !.host_calls = another.host_calls,
              !.returned = another.returned]

\* the clone of process_between when its process() has ended
process_between_clone(v, from, to) ==
    process_loop([v EXCEPT !.tks = SubSeq(v.tks, from + 1, to),
                           !.tks_src = SubSeq(v.tks_src, from + 1, to)])

\* process_between running the range in the evaluator itself
process_between_in_place(v, from, to) ==
    IF from > to \/ to > Len(v.tks) THEN Panic(v, "range out of bounds")
    ELSE process_between_clone(v, from, to)
\* Vm::process_between: `self.tks.range(from..to)` counts from the front of the chain
process_between(v, from, to) ==
    IF from > to \/ to > Len(v.tks) THEN Panic(v, "range out of bounds")
    ELSE after_clone(v, process_between_clone(v, from, to))

LetX == <<Kw("Let"), Lit(Ident("x")), Lit(Number(2))>>
BetweenChains ==
    { <<Lit(Number(1))>>, <<Lit(Number(1)), Lit(Number(2))>>, LetX, LetX \o <<Lit(Number(1))>>,
      <<BinOp("Add", Lit(Number(1)), Lit(Number(2))), Whitespace, Lit(Bool(TRUE))>> }

LoadBetween ==
    /\ ~running
    /\ failed = "none"
    /\ tks = << >>
    /\ loads < MaxBetweenLoads
    /\ \E c \in BetweenChains : SetVm([load_chain(Cur, c) EXCEPT !.loads = @ + 1,
                                                               !.loaded = c,
                                                               !.consumed = << >>])

\* the embedder calls process_between(lo, hi)
CallProcessBetween ==
    /\ ~running
    /\ failed = "none"
    /\ loads > 0
    /\ api_result.calls < MaxBetweenCalls
    /\ \E lo \in 0..MaxBetween : \E hi \in 0..MaxBetween :
            Called("process_between", <<lo, hi>>,
                   [v |-> process_between(Cur, lo, hi), out |-> << >>])

NextBetween == LoadBetween \/ CallProcessUntil \/ CallProcessBetween

SpecBetween == Init /\ [][NextBetween]_vars

(* ----------------------- binary operators on literals ------------------ *)
MaxExprLoads == 1
BoolOps == {"And", "Or", "Eq", "Neq"}
ArithOps == {"Add", "Sub", "Mul", "Div", "Mod"}
ArithOperands == {I64_MIN, Number(-1), Number(0), Number(1), Number(2), I64_MAX}

\* an operator on two literals; the same as the left operand of an And, which visits
\* it and pops the literal stack; and an operator on a literal of the wrong type
ExprChains ==
    {<<BinOp(op, Lit(Bool(a)), Lit(Bool(b)))>> : op \in BoolOps, a \in BOOLEAN, b \in BOOLEAN}
    \cup {<<BinOp("And", BinOp(op, Lit(Bool(a)), Lit(Bool(TRUE))), Lit(Bool(TRUE)))>> :
            op \in BoolOps, a \in BOOLEAN}
    \cup {<<BinOp(op, Lit(a), Lit(b))>> : op \in ArithOps, a \in ArithOperands,
                                          b \in ArithOperands}
    \cup {<<BinOp(op, Lit(Number(1)), Lit(Bool(TRUE)))>> : op \in BoolOps \cup ArithOps}

LoadExpr ==
    /\ ~running
    /\ failed = "none"
    /\ tks = << >>
    /\ loads < MaxExprLoads
    /\ \E c \in ExprChains : SetVm([load_chain(Cur, c) EXCEPT !.loads = @ + 1,
                                                            !.loaded = c,
                                                            !.consumed = << >>])

\* a turn of Vm::process on a binary operator other than Assign
VisitBinaryOp ==
    /\ Dispatching
    /\ Last(tks).k = "Expression"
    /\ Last(tks).ex.e = "BinaryOp"
    /\ Last(tks).ex.op # "Assign"
    /\ SetVm(visited(Expression_visit(dispatch_pop(Cur), Last(tks).ex)))

NextExpr == LoadExpr \/ Process \/ VisitBinaryOp \/ ProcessDone

SpecExpr == Init /\ [][NextExpr]_vars

(* --------------------------- the math feature --------------------------- *)
MaxMathLoads == 1
MathScopeName == <<"std", "math">>
\* stdlib/math.rs, __math_feature: the integer functions
MathExterns ==
    <<Decl("min", <<"min", "val">>, "num"), Decl("max", <<"max", "val">>, "num"),
      Decl("cmp", <<"first", "second">>, "num")>>

math_feature(v) == extern_fns_scoped(v, MathScopeName, MathExterns)

MathArgs == -2..2
MathFns == {"min", "max", "cmp"}
MathChains ==
    { <<InvokeStatic(MathScopeName \o <<f>>, <<Lit(Number(a)), Lit(Number(b))>>)>> :
        f \in MathFns, a \in MathArgs, b \in MathArgs }

\* the embedder adds the math feature of the standard library
AddMathFeature ==
    /\ loads = 0
    /\ ~Registered("cmp")
    /\ SetVm(math_feature(Cur))

\* the embedder loads a call of a math function
LoadMath ==
    /\ ~running
    /\ failed = "none"
    /\ tks = << >>
    /\ loads < MaxMathLoads
    /\ \E c \in MathChains : SetVm([load_chain(Cur, c) EXCEPT !.loads = @ + 1,
                                                            !.loaded = c,
                                                            !.consumed = << >>])

NextMath == AddMathFeature \/ LoadMath \/ Process \/ VisitInvokeStatic \/ ProcessDone

SpecMath == Init /\ [][NextMath]_vars

(* ------------- the Mutex around EXTERN_FNS (fns.rs, stdlib.rs) ----------- *)
MaxExternCalls == 2

\* stdlib.rs, __core_feature
CoreScopeName == <<"std">>
CoreExterns ==
    <<Decl("panic", <<"message">>, "void"), Decl("exit", <<"code">>, "void"),
      Decl("sleep", <<"time">>, "void"), Decl("sleep_millis", <<"time">>, "void")>>
core_feature(v) == extern_fns_scoped(v, CoreScopeName, CoreExterns)

\* the state of the evaluator that neither a registration nor an extern call of a thread
\* changes; evaluator 1 is the Vm of the other variables, evaluator 2 a second Vm of the
\* process, of which only the use of the shared table is followed
lock_unchanged ==
    UNCHANGED <<tks, lit_stack, current_scope, scope_types, frames, running, failed, loads,
                uid, tks_src, loaded, consumed, trace, host_calls, returned, codec,
                overflow_checks, instance, api_result>>

\* extern_fns!: `let mut __extfns = &mut EXTERN_FNS.lock().unwrap();`
RegisterLock(t) ==
    /\ ext.pc[t] = "idle"
    /\ ~ext.registered[t]
    /\ ext.lock = 0
    /\ ext' = [ext EXCEPT !.lock = t, !.pc[t] = "registering"]
    /\ UNCHANGED <<EXTERN_FNS, scopes>>
    /\ lock_unchanged

\* extern_fns!: the pushes, add_extern_fn and push_scope, then `drop(__extfns)`
RegisterDrop(t) ==
    /\ ext.pc[t] = "registering"
    /\ ext' = [ext EXCEPT !.lock = 0, !.pc[t] = "idle", !.registered[t] = TRUE]
    /\ EXTERN_FNS' = core_feature(Cur).EXTERN_FNS
    /\ scopes' = IF t = 1 THEN core_feature(Cur).scopes ELSE scopes
    /\ lock_unchanged

\* the handlers of the host functions that return (sleep, sleep_millis)
Sleepers == {h \in 1..Len(EXTERN_FNS) : EXTERN_FNS[h] \in {"sleep", "sleep_millis"}}

\* ExternFn::call: `EXTERN_FNS.lock().unwrap()`; the thread waits while another holds
\* the guard
CallLock(t) ==
    /\ ext.pc[t] = "idle"
    /\ ext.calls[t] < MaxExternCalls
    /\ ext.lock = 0
    /\ \E h \in Sleepers :
           ext' = [ext EXCEPT !.lock = t, !.pc[t] = "locked", !.handler[t] = h]
    /\ UNCHANGED <<EXTERN_FNS, scopes>>
    /\ lock_unchanged

\* ExternFn::call: `let fun = &guard[max(0, self.handler - 1)]; fun.call((params, ))`:
\* fun borrows from the guard, a temporary of the let statement that lives to the end
\* of the function body; the host function starts
CallHost(t) ==
    /\ ext.pc[t] = "locked"
    /\ ext' = [ext EXCEPT !.pc[t] = "running"]
    /\ UNCHANGED <<EXTERN_FNS, scopes>>
    /\ lock_unchanged

\* the host function returns, ExternFn::call returns and the guard is dropped
HostReturn(t) ==
    /\ ext.pc[t] = "running"
    /\ ext' = [ext EXCEPT !.lock = 0, !.pc[t] = "idle", !.calls[t] = @ + 1]
    /\ UNCHANGED <<EXTERN_FNS, scopes>>
    /\ lock_unchanged

NextLock ==
    \/ \E t \in Evaluators : RegisterLock(t)
    \/ \E t \in Evaluators : RegisterDrop(t)
    \/ \E t \in Evaluators : CallLock(t)
    \/ \E t \in Evaluators : CallHost(t)
    \/ \E t \in Evaluators : HostReturn(t)

SpecLock == Init /\ [][NextLock]_vars

(* ------------------- scopes across calls and struct bodies -------------- *)
MaxScopeLoads == 3
MaxFromChain == 2

\* the names a scope binds, in the order its tables are walked
RECURSIVE names_in(_)
names_in(set) ==
    IF set = {} THEN << >>
    ELSE LET n == CHOOSE x \in set : TRUE IN <<n>> \o names_in(set \ {n})

RECURSIVE import_all(_, _, _)
import_all(sc, from, names) ==
    IF names = << >> THEN sc ELSE import_all(import(sc, from, Head(names)), from, Tail(names))

\* import_globals: the scope imports every symbol bound in the scope "global"
import_globals(sc, v) ==
    LET global == v.scopes[GlobalName]
    IN import_all(sc, GlobalName,
                  names_in(DOMAIN global.mutables \cup DOMAIN global.consts
                              \cup DOMAIN global.static_fns \cup DOMAIN global.extern_fns
                              \cup DOMAIN global.structs))

\* Vm::register_type: the template is added to the current scope under a random key
register_type(v, structure, key) ==
    [v EXCEPT !.scopes[v.current_scope] = add_struct(@, key, structure)]

\* format!("struct_0x{:2x}", random u64), taken to be fresh
StructScopeName(n) == <<"struct_0x", ToString(n)>>

\* what the claims about scopes read of an evaluator
scope_state(v) ==
    [current_scope |-> v.current_scope, scope_types |-> v.scope_types,
     scope_names |-> DOMAIN v.scopes]

\* StructureTemplate::from_chain up to and including load_chain
from_chain_enter(v, name, chain, scope) ==
    LET registered(v1) ==
            load_chain(move_scope(push_scope(push_scope_level(v1, "Struct"),
                                             StructScopeName(v.uid + 2), scope),
                                  StructScopeName(v.uid + 2)),
                       chain)
    IN registered(register_type([v EXCEPT !.uid = @ + 2],
                                StructureTemplate(name, scope, v.uid + 1),
                                ToString(v.uid + 1)))

\* the end of from_chain without the move back to the scope of the caller
from_chain_leave_unmoved(w, cached, sc_name) ==
    IF w.failed # "none" THEN w
    ELSE IF ~Has(w.scopes, sc_name) THEN Panic(w, "drop_scope of a missing scope")
    ELSE pop_scope_level(drop_scope(w, sc_name))
\* StructureTemplate::from_chain after process_between
from_chain_leave(w, cached, sc_name) ==
    IF w.failed # "none" THEN w
    ELSE IF ~Has(w.scopes, sc_name)
    THEN Panic(move_scope(w, cached), "drop_scope of a missing scope")
    ELSE pop_scope_level(drop_scope(move_scope(w, cached), sc_name))

\* StructureTemplate::from_chain from process_between on, as far as the evaluator goes
\* (the template it returns is not followed): the evaluator after the call, and the
\* scope state of the evaluator and of the clone of process_between while the body is
\* evaluated
from_chain_run(entered, chain, cached, sc_name) ==
    [v |-> from_chain_leave(process_between(entered, 0, Len(chain)), cached, sc_name),
     out |-> <<scope_state(entered),
               scope_state(process_between_clone(entered, 0, Len(chain)))>>]

ScopeDecls ==
    FunctionDecl("num", "f", << >>, <<Kw("Return"), Lit(Number(1))>>)
        \o FunctionDecl("num", "k", << >>,
                        <<Kw("Return"), InvokeStatic(GlobalFn("f"), << >>)>>)
ScopeChains ==
    { ScopeDecls,
      <<Kw("Const"), Lit(Ident("c")), Lit(Number(1))>>,
      <<InvokeStatic(<<"f">>, << >>)>>,
      <<InvokeStatic(<<"k">>, << >>)>>,
      <<InvokeStatic(<<"k">>, <<Lit(Number(1))>>)>> }

LoadScopes ==
    /\ ~running
    /\ failed = "none"
    /\ tks = << >>
    /\ loads < MaxScopeLoads
    /\ \E c \in ScopeChains : SetVm([load_chain(Cur, c) EXCEPT !.loads = @ + 1,
                                                             !.loaded = c,
                                                             !.consumed = << >>])

StructBodies ==
    { << >>,
      <<Kw("Let"), Lit(Ident("x")), Lit(Number(2))>>,
      <<Kw("Const"), Lit(Ident("y")), Lit(Ident("c"))>>,
      FunctionDecl("num", "m", <<"this">>, <<Kw("Return"), Lit(Number(1))>>),
      <<InvokeStatic(GlobalFn("f"), << >>)>> }

\* the embedder calls StructureTemplate::from_chain
CallFromChain ==
    /\ ~running
    /\ failed = "none"
    /\ tks = << >>
    /\ api_result.calls < MaxFromChain
    /\ \E chain \in StructBodies :
       \E scope \in {add_const(import_globals(NewScope, Cur), "$name", String(<<"S">>))} :
       \E entered \in {from_chain_enter(Cur, "S", chain, scope)} :
       \E r \in {from_chain_run(entered, chain, current_scope, StructScopeName(uid + 2))} :
          Called("from_chain", <<"S", chain>>, r)

NextScopes ==
    LoadScopes \/ Process \/ VisitFunction \/ VisitLet \/ VisitConst \/ VisitInvokeStatic
        \/ VisitReturn \/ CallReturn \/ ProcessDone \/ CallFromChain

SpecScopes == Init /\ [][NextScopes]_vars

(* ------------------------ calls by table pointer ------------------------ *)
MaxPtrCalls == 2
MaxPtr == 8

NoSuchPtr == "Tried to call an nonexistent ptr-bound external function"

\* Vm::call_ptr_fn: the evaluator after the call and the literal returned (if any);
\* the Vec index fns[ptr] counts from 0, the sequence EXTERN_FNS from 1
call_ptr_fn(v, ptr, params) ==
    IF scope_level(v) = "Struct"
    THEN [v |-> Panic(v, "Can not call functions inside a raw struct scope!"), out |-> << >>]
    ELSE IF Len(v.EXTERN_FNS) < ptr THEN [v |-> Panic(v, NoSuchPtr), out |-> << >>]
    ELSE LET call(w, lits) ==
                IF ptr + 1 > Len(w.EXTERN_FNS)
                THEN [v |-> Panic(w, "index out of bounds"), out |-> << >>]
                ELSE LET host == w.EXTERN_FNS[ptr + 1]
                         w1 == [w EXCEPT !.host_calls = Append(@, [host |-> host, args |-> lits])]
                         result(out) ==
                            IF out = << >>
                            THEN [v |-> Panic(w1, "host function panicked"), out |-> << >>]
                            ELSE [v |-> w1, out |-> out]
                     IN result(HostCall(host, lits))
             with(ep) == IF ep.v.failed # "none" THEN [v |-> ep.v, out |-> << >>]
                         ELSE call(ep.v, ep.lits)
         IN with(eval_params(v, params, << >>))

PtrParams ==
    { << >>, <<Lit(Number(1))>>, <<Lit(Number(1)), Lit(Number(2))>>, <<Lit(String(<<"x">>))>> }

\* the embedder calls call_ptr_fn
CallPtrFn ==
    /\ ~running
    /\ failed = "none"
    /\ api_result.calls < MaxPtrCalls
    /\ \E ptr \in 0..MaxPtr, params \in PtrParams :
          Called("call_ptr_fn", <<ptr, params>>, call_ptr_fn(Cur, ptr, params))

NextPtr == RegisterExterns \/ AddIoFeature \/ CallPtrFn

SpecPtr == Init /\ [][NextPtr]_vars

(* ----------------------- lookups in the merged view --------------------- *)
MaxResolveCalls == 3

\* the scopes the embedder pushes as "lib": pushing again rebinds n in the source
SourceScopes ==
    { add_const(NewScope, "n", Number(5)),
      add_const(NewScope, "n", Number(6)),
      add_const(add_const(NewScope, "n", Number(5)), "m", Number(7)),
      add_static_fn(NewScope, "n", "num", << >>, <<Kw("Return"), Lit(Number(5))>>) }

\* the embedder pushes the scope "lib", or replaces it (HashMap::insert)
PushSource ==
    /\ ~running
    /\ failed = "none"
    /\ api_result.calls < MaxResolveCalls
    /\ \E sc \in SourceScopes :
          /\ ~(Has(scopes, LibScopeName) /\ scopes[LibScopeName] = sc)
          /\ SetVm(push_scope(Cur, LibScopeName, sc))

\* the embedder imports a name of "lib" into the current scope
ImportFromLib ==
    /\ ~running
    /\ failed = "none"
    /\ \E name \in {"n", "m"} :
          /\ ~(Has(scopes[current_scope].imports, LibScopeName)
                  /\ \E i \in 1..Len(scopes[current_scope].imports[LibScopeName]) :
                         scopes[current_scope].imports[LibScopeName][i] = name)
          /\ SetVm(Vm_import(Cur, LibScopeName, name))

\* the embedder calls resolve_const
CallResolveConst ==
    /\ ~running
    /\ failed = "none"
    /\ api_result.calls < MaxResolveCalls
    /\ \E name \in {"n", "m"} :
          LET returns(rc) == Called("resolve_const", <<name>>, [v |-> rc.v, out |-> rc.lit])
          IN returns(resolve_const(Cur, name))

\* the embedder calls resolve_any_var
CallResolveAnyVar ==
    /\ ~running
    /\ failed = "none"
    /\ api_result.calls < MaxResolveCalls
    /\ \E name \in {"n", "m"} :
          LET returns(rc) == Called("resolve_any_var", <<name>>, [v |-> rc.v, out |-> rc.lit])
          IN returns(resolve_any_var(Cur, name))

NextMerged == PushSource \/ ImportFromLib \/ CallResolveConst \/ CallResolveAnyVar

SpecMerged == Init /\ [][NextMerged]_vars

(* ------------------------------ properties ------------------------------ *)
\* the k-th token from the tail of the chain: NextTok(0) is the one process() removes next
NextTok(k) == tks[Len(tks) - k]

IsIdentTok(tok) == tok.k = "Literal" /\ tok.lit.t = "ident"
IsInvokeTok(tok) == tok.k = "Expression" /\ tok.ex.e = "InvokeStatic"

\* the call the next dispatch makes, as <<InvokeStatic expression>>, or << >>
PendingCall ==
    IF ~Dispatching THEN << >>
    ELSE IF IsInvokeTok(NextTok(0)) THEN <<NextTok(0).ex>>
    ELSE IF /\ NextTok(0) \in {Kw("Let"), Kw("Const")}
            /\ Len(tks) >= 3
            /\ IsIdentTok(NextTok(1))
            /\ IsInvokeTok(NextTok(2))
         THEN <<NextTok(2).ex>>
    ELSE IF NextTok(0) = Kw("Return") /\ Len(tks) >= 2 /\ IsInvokeTok(NextTok(1))
         THEN <<NextTok(1).ex>>
    ELSE << >>

\* the callable a path denotes in the current state, as call_static_fn finds it
Callee(path) ==
    IF Len(path) > 1
    THEN IF Has(scopes, Front(path)) THEN get_callable(scopes[Front(path)], Last(path))
         ELSE << >>
    ELSE get_callable(scopes[current_scope], path[1])

Range(seq) == {seq[i] : i \in 1..Len(seq)}

\* C1: processing `Let name v` (v a literal value) in a scope succeeds and makes a read
\* of name in that scope, by resolve_var and by resolve_any_var, yield v; this holds
\* as well when name is already bound, so a later `Let name w` makes the read yield w.
C1_LetThenRead ==
    [][(/\ Dispatching
        /\ Len(tks) >= 3
        /\ NextTok(0) = Kw("Let")
        /\ IsIdentTok(NextTok(1))
        /\ NextTok(2).k = "Literal"
        /\ NextTok(2).lit.t # "ident")
       => (/\ failed' = "none"
           /\ current_scope' = current_scope
           /\ resolve_var(Cur', NextTok(1).lit.id) = <<NextTok(2).lit>>
           /\ resolve_any_var(Cur', NextTok(1).lit.id).lit = <<NextTok(2).lit>>)]_vars

\* x was bound by `Let x 1`, then rebound by `Let x "a"` in the same scope, and reads "a"
C1_Rebound ==
    /\ failed = "none"
    /\ \E i, j \in 1..Len(trace) :
          /\ i < j
          /\ j = Len(trace)
          /\ trace[i].tok = Kw("Let")
          /\ trace[i].args = <<Lit(Ident("x")), Lit(Number(1))>>
          /\ trace[j].tok = Kw("Let")
          /\ trace[j].args = <<Lit(Ident("x")), Lit(String(<<"a">>))>>
          /\ trace[i].scope = current_scope
          /\ trace[j].scope = current_scope
    /\ resolve_var(Cur, "x") = <<String(<<"a">>)>>

\* C2: when name is already a constant of the current scope, processing
\* `Const name w` fails, and the constant binding of name is what it was before.
C2_ConstRebindFails ==
    [][(/\ Dispatching
        /\ Len(tks) >= 3
        /\ NextTok(0) = Kw("Const")
        /\ IsIdentTok(NextTok(1))
        /\ NextTok(2).k = "Literal"
        /\ get_const(scopes[current_scope], NextTok(1).lit.id) # << >>)
       => (/\ failed' # "none"
           /\ current_scope' = current_scope
           /\ get_const(scopes'[current_scope], NextTok(1).lit.id)
                = get_const(scopes[current_scope], NextTok(1).lit.id))]_vars

\* `Const x 1` was processed, then `Const x 2` failed in the same scope, x is still 1
C2_SecondConstFailed ==
    /\ failed = "Can not reassign constant"
    /\ \E i, j \in 1..Len(trace) :
          /\ i < j
          /\ j = Len(trace)
          /\ trace[i].tok = Kw("Const")
          /\ trace[i].args = <<Lit(Ident("x")), Lit(Number(1))>>
          /\ trace[j].tok = Kw("Const")
          /\ trace[j].args = <<Lit(Ident("x")), Lit(Number(2))>>
          /\ trace[i].scope = current_scope
          /\ trace[j].scope = current_scope
    /\ get_const(scopes[current_scope], "x") = <<Number(1)>>

\* C3: an Assign `name = e` (e a literal) on an existing mutable binding whose value
\* has another type tag than e fails and leaves the binding unchanged.
C3_AssignKeepsTypeTag ==
    [][(/\ Dispatching
        /\ NextTok(0).k = "Expression"
        /\ NextTok(0).ex.e = "BinaryOp"
        /\ NextTok(0).ex.op = "Assign"
        /\ IsIdentTok(NextTok(0).ex.lh)
        /\ NextTok(0).ex.rh.k = "Literal"
        /\ get_var(scopes[current_scope], NextTok(0).ex.lh.lit.id) # << >>
        /\ get_var(scopes[current_scope], NextTok(0).ex.lh.lit.id)[1].t
              # NextTok(0).ex.rh.lit.t)
       => (/\ failed' # "none"
           /\ get_var(scopes'[current_scope], NextTok(0).ex.lh.lit.id)
                = get_var(scopes[current_scope], NextTok(0).ex.lh.lit.id))]_vars

\* C4: in every scope, no name is bound in more than one of the mutable, constant,
\* function and structure namespaces.
C4_NamespacesDisjoint ==
    \A sn \in DOMAIN scopes :
        LET sc == scopes[sn]
            fns == DOMAIN sc.static_fns \cup DOMAIN sc.extern_fns \cup DOMAIN sc.inst_fns
            all == DOMAIN sc.mutables \cup DOMAIN sc.consts \cup fns \cup DOMAIN sc.structs
        IN \A n \in all :
              Cardinality({ns \in {"mutable", "constant", "function", "structure"} :
                             \/ ns = "mutable" /\ Has(sc.mutables, n)
                             \/ ns = "constant" /\ Has(sc.consts, n)
                             \/ ns = "function" /\ n \in fns
                             \/ ns = "structure" /\ Has(sc.structs, n)}) <= 1

\* C5: after load_chain(c) into an evaluator with an empty chain, the tokens of c are
\* removed from the chain in the order c[0], c[1], ..., c[n-1]: the tokens of c removed
\* so far followed by the tokens of c still in the chain, tail first, are c itself.
C5_ProducerOrder ==
    LET FromEmbedder(e) == e.src = 0
        removed == SelectSeq(consumed, FromEmbedder)
        waiting == SelectSeq([i \in 1..Len(tks) |-> [tok |-> tks[Len(tks) + 1 - i],
                                                     src |-> tks_src[Len(tks) + 1 - i]]],
                             FromEmbedder)
    IN [i \in 1..Len(removed) |-> removed[i].tok]
           \o [i \in 1..Len(waiting) |-> waiting[i].tok] = loaded

\* a chain of five tokens has been loaded and consumed to the end, first token first
C5_ChainConsumed ==
    /\ failed = "none"
    /\ ~running
    /\ tks = << >>
    /\ Len(loaded) = 5
    /\ [i \in 1..Len(consumed) |-> consumed[i].tok] = loaded
    /\ loaded[1] # loaded[5]

\* C6: a call of a user-defined or extern function whose param_names has no "varargs",
\* with a number of arguments other than the number of param_names, fails; no
\* activation scope has been created and no host function has been called.
C6_ArityCheckedFirst ==
    [][(/\ PendingCall # << >>
        /\ Callee(PendingCall[1].path) # << >>
        /\ "varargs" \notin Range(Callee(PendingCall[1].path)[1].fn.param_names)
        /\ Len(PendingCall[1].params) # Len(Callee(PendingCall[1].path)[1].fn.param_names))
       => (/\ failed' # "none"
           /\ uid' = uid
           /\ DOMAIN scopes' = DOMAIN scopes
           /\ scope_types' = scope_types
           /\ current_scope' = current_scope
           /\ frames' = frames
           /\ host_calls' = host_calls)]_vars

\* the user-defined f, declared without parameters, was called with one argument:
\* the call failed, with no activation scope and no host call made
C6_WrongArityCall ==
    /\ failed = "Invalid amount of arguments supplied!"
    /\ trace # << >>
    /\ Last(trace).tok = InvokeStatic(<<"f">>, <<Lit(Number(1))>>)
    /\ get_static_fn(scopes[current_scope], "f") # << >>
    /\ uid = 0
    /\ host_calls = << >>

\* C7: a call of a callable whose param_names contains "varargs" does not fail
\* the arity check, whatever the number of arguments.
C7_VarargsAnyArity ==
    [][(/\ PendingCall # << >>
        /\ Callee(PendingCall[1].path) # << >>
        /\ "varargs" \in Range(Callee(PendingCall[1].path)[1].fn.param_names))
       => failed' # "Invalid amount of arguments supplied!"]_vars

\* C8: when the body of a user-defined function has run and left a literal on the
\* stack, the call fails if the literal does not satisfy out_ty (type_str) and out_ty
\* is not "unknown", and it does not fail the type check otherwise.
C8_ReturnTypeChecked ==
    [][(/\ running
        /\ tks = << >>
        /\ frames # << >>
        /\ lit_stack # << >>)
       => IF \/ Last(frames).out_ty = "unknown"
             \/ type_str(Last(lit_stack), Last(frames).out_ty)
          THEN failed' # "Invalid output provided!"
          ELSE failed' # "none"]_vars

\* C9: when a call of a user-defined function returns, the current scope is the one
\* of before the call, the activation scope is no longer in the scope map and the
\* scope-level stack is the one of before the call; nested calls included.
C9_ReturnRestoresScopes ==
    [][(/\ running
        /\ tks = << >>
        /\ frames # << >>
        /\ failed' = "none")
       => (/\ frames' = Front(frames)
           /\ current_scope' = Last(frames).entry.scope
           /\ scope_types' = Last(frames).entry.types
           /\ ~Has(scopes', Last(frames).name)
           /\ DOMAIN scopes' = DOMAIN scopes \ {Last(frames).name})]_vars

\* a call made inside a call has returned, then the outer call, back to the global scope
C9_NestedReturned ==
    /\ failed = "none"
    /\ frames = << >>
    /\ Len(returned) >= 2
    /\ \E i \in 1..Len(returned) : returned[i].depth = 2
    /\ returned[Len(returned)].depth = 1
    /\ current_scope = GlobalName
    /\ scope_types = <<"Global">>
    /\ \A i \in 1..Len(returned) : ~Has(scopes, returned[i].name)

\* C10: every token is dispatched while the activation that loaded it is the running
\* one (0: none) and in the scope of that activation: a call dispatches the tokens of
\* its body only, and the caller's remaining tokens wait for the return.
C10_BodyThenCaller ==
    \A i \in 1..Len(trace) :
        /\ trace[i].frame = trace[i].src
        /\ trace[i].src = 0 => trace[i].scope = GlobalName
        /\ trace[i].src > 0 => trace[i].scope = ActivationName(trace[i].src)

\* C11: the literal a call returns is the operand of the `Return v` its body executed,
\* whatever other tokens of the body left on the literal stack.
C11_ReturnsReturnOperand ==
    \A i \in 1..Len(returned) :
        \A j \in 1..Len(trace) :
            (/\ trace[j].src = returned[i].id
             /\ trace[j].tok = Kw("Return")
             /\ Len(trace[j].args) = 1
             /\ trace[j].args[1].k = "Literal")
            => returned[i].output = trace[j].args[1].lit

\* C12: when the body of a call has run and the literal stack is the one of before the
\* call (the body produced no value), the call returns Void and the literals that were
\* on the stack before the call are still there.
C12_NoValueReturnsVoid ==
    [][(/\ running
        /\ failed = "none"
        /\ tks = << >>
        /\ frames # << >>
        /\ lit_stack = Last(frames).entry.stack)
       => (/\ failed' = "none"
           /\ returned' = Append(returned, Last(returned'))
           /\ Last(returned').output = Void
           /\ Len(lit_stack') >= Len(lit_stack)
           /\ SubSeq(lit_stack', 1, Len(lit_stack)) = lit_stack)]_vars

\* C13: inside the body of a call, `Let r n` with n bound (mutable or constant) in
\* scope "global" and not in the activation scope reads the global value of n.
C13_GlobalsReadableInBody ==
    [][(/\ Dispatching
        /\ frames # << >>
        /\ current_scope = Last(frames).name
        /\ Len(tks) >= 3
        /\ NextTok(0) = Kw("Let")
        /\ IsIdentTok(NextTok(1))
        /\ IsIdentTok(NextTok(2))
        /\ get_var(scopes[current_scope], NextTok(2).lit.id) = << >>
        /\ get_const(scopes[current_scope], NextTok(2).lit.id) = << >>
        /\ \/ get_var(scopes[GlobalName], NextTok(2).lit.id) # << >>
           \/ get_const(scopes[GlobalName], NextTok(2).lit.id) # << >>)
       => (/\ failed' = "none"
           /\ resolve_var(Cur', NextTok(1).lit.id)
                \in {get_var(scopes[GlobalName], NextTok(2).lit.id),
                     get_const(scopes[GlobalName], NextTok(2).lit.id)} \ {<< >>})]_vars

\* the tokens visited by the step that is being taken, after the token it dispatched
Executed == [i \in 1..(Len(trace') - Len(trace) - 1) |-> trace'[Len(trace) + 1 + i].tok]

\* the If group that starts at P[i]: its branches in order, as [cond, body] with
\* cond = << >> for Else, and the index of the token after the group
RECURSIVE group_from(_, _, _)
group_from(P, i, acc) ==
    IF i > Len(P) THEN [branches |-> acc, next |-> i]
    ELSE IF P[i] = ElseStmt
    THEN LET close == find_from(P, i + 2, RBracket)
         IN [branches |-> Append(acc, [cond |-> << >>, body |-> SubSeq(P, i + 2, close - 1)]),
             next |-> close + 1]
    ELSE IF P[i] = ElifStmt \/ (P[i] = IfStmt /\ acc = << >>)
    THEN LET close == find_from(P, i + 3, RBracket)
         IN group_from(P, close + 1,
                       Append(acc, [cond |-> <<P[i + 1].lit>>,
                                    body |-> SubSeq(P, i + 3, close - 1)]))
    ELSE [branches |-> acc, next |-> i]

\* the body of the first branch whose condition is truthy, the Else body if none is
RECURSIVE chosen_body(_)
chosen_body(branches) ==
    IF branches = << >> THEN << >>
    ELSE IF Head(branches).cond = << >> THEN Head(branches).body
    ELSE IF truthy(Head(branches).cond[1]) THEN Head(branches).body
    ELSE chosen_body(Tail(branches))

C16_LiteralRoundTrip ==
    (codec.kind = "Literal" /\ codec.stage = "read")
        => (codec.out.ok /\ codec.out.val = codec.obj)

(* C17: for every scope S, reading a scope from the bytes produced by writing S yields a
   scope with the same mutable bindings, constants, functions (static, instance and
   extern), exports, imports and structures as S. *)
C17_ScopeRoundTrip ==
    (codec.kind = "Scope" /\ codec.stage = "read")
        => /\ codec.out.ok
           /\ \A field \in {"mutables", "consts", "static_fns", "inst_fns", "extern_fns",
                             "exports", "imports", "structs"} :
                  codec.out.val[field] = codec.obj[field]

(* C18: within each serialized sum type (Literal, Keyword, BinaryOp, UnaryOp, Expression)
   distinct variants write distinct first bytes, and read maps the first byte a variant
   wrote back to that variant. *)
C18_DiscriminantsDistinct ==
    (codec.kind = "Variant" /\ codec.stage = "read")
        => /\ codec.out.ok
           /\ codec.out.val = codec.obj.variant
           /\ \A i \in 1..Len(Variants(codec.obj.family)) :
                  LET other == Variants(codec.obj.family)[i]
                  IN other # codec.obj.variant
                         => Variant_write(codec.obj.family, other, codec.platform)[1]
                                # codec.buf[1]

(* C19: std::mem transmute(v, "num") applied to a Number literal v returns Number v. *)
C19_TransmuteNumIsIdentity ==
    (/\ codec.kind = "Transmute"
     /\ codec.obj[1].t = "num"
     /\ codec.obj[2] = TypeName(as_bytes("num")))
        => (codec.out.ok /\ codec.out.val = codec.obj[1])

\* the extern callables recorded in the scopes of a state, each with its scope and name
ExternCallables(scs) ==
    {[scope |-> sn, name |-> name, fn |-> scs[sn].extern_fns[name]] :
        <<sn, name>> \in UNION {{<<sn, n>> : n \in DOMAIN scs[sn].extern_fns} :
                                    sn \in DOMAIN scs}}

(* C20: after any sequence of extern registrations every extern callable recorded in a
   scope has a handler h with 1 <= h <= size of the extern table, and the table holds at
   h (index h - 1 of the Rust vector) the host function registered under the callable's
   name; a registration leaves the entries the table already had as they were; and a
   call of an extern callable that does not fail invokes the host function of its name,
   once. *)
C20_HandlersResolve ==
    [][/\ \A c \in ExternCallables(scopes') :
             /\ c.fn.handler >= 1
             /\ c.fn.handler <= Len(EXTERN_FNS')
             /\ EXTERN_FNS'[c.fn.handler] = c.name
       /\ Len(EXTERN_FNS') >= Len(EXTERN_FNS)
       /\ SubSeq(EXTERN_FNS', 1, Len(EXTERN_FNS)) = EXTERN_FNS
       /\ (host_calls' # host_calls)
             => /\ PendingCall # << >>
                /\ Callee(PendingCall[1].path) # << >>
                /\ Callee(PendingCall[1].path)[1].kind = "Extern"
                /\ Len(host_calls') = Len(host_calls) + 1
                /\ SubSeq(host_calls', 1, Len(host_calls)) = host_calls
                /\ Last(host_calls').host = Last(PendingCall[1].path)
       /\ (/\ PendingCall # << >>
           /\ Callee(PendingCall[1].path) # << >>
           /\ Callee(PendingCall[1].path)[1].kind = "Extern"
           /\ failed' = "none")
             => host_calls' # host_calls]_vars

\* add was registered first (handler 2) and the IO feature after it; the call add(1, 2)
\* then reached the host function add
C20_AddCalledAfterLaterRegistration ==
    /\ failed = "none"
    /\ Len(EXTERN_FNS) > 2
    /\ get_extern_fn(scopes[GlobalName], "add") # << >>
    /\ get_extern_fn(scopes[GlobalName], "add")[1].handler = 2
    /\ host_calls # << >>
    /\ Last(host_calls) = [host |-> "add", args |-> <<Number(1), Number(2)>>]

(* C21: an extern invocation holds the lock of the extern table for the index lookup
   only: while the host function of an evaluator runs, that evaluator does not hold the
   lock, so an extern call or a registration of another evaluator can proceed. *)
C21_LockFreeWhileHostRuns ==
    \A t \in Evaluators : ext.pc[t] = "running" => ext.lock # t

\* the qualified identifier an Import about to be dispatched is given: the identifier
\* token that follows the keyword, else the identifier on top of the literal stack
ImportName ==
    IF ~(Dispatching /\ NextTok(0) = Kw("Import")) THEN << >>
    ELSE IF Len(tks) >= 2 /\ IsIdentTok(NextTok(1)) THEN <<NextTok(1).lit.id>>
    ELSE IF lit_stack # << >> /\ Last(lit_stack).t = "ident" THEN <<Last(lit_stack).id>>
    ELSE << >>

(* C22: processing Import with the qualified identifier a::b::c records member c under
   source scope a::b in the imports of the current scope; and once std::io::print has
   been imported (the IO feature being enabled), an unqualified call of print invokes
   the host function print. *)
C22_ImportSplitsAtLast ==
    [][/\ (ImportName # << >> /\ Len(ImportName[1]) >= 2)
             => /\ failed' = "none"
                /\ Has(scopes'[current_scope].imports, Front(ImportName[1]))
                /\ Last(ImportName[1]) \in Range(scopes'[current_scope].imports[Front(ImportName[1])])
       /\ (/\ Dispatching
           /\ IsInvokeTok(NextTok(0))
           /\ NextTok(0).ex.path = <<"print">>
           /\ Has(scopes, IoScopeName)
           /\ \E i \in 1..Len(trace) : trace[i].tok = Kw("Import")
           /\ \E i \in 1..Len(loaded) : loaded[i] = Lit(Qualified(IoPrint)))
             => /\ failed' = "none"
                /\ host_calls' = Append(host_calls, [host |-> "print",
                                                     args |-> <<String(<<"x">>)>>])]_vars

\* the names the current scope imports, each with its source scope
Imported ==
    LET imports == scopes[current_scope].imports
    IN UNION {{[from |-> from, name |-> imports[from][i]] : i \in 1..Len(imports[from])} :
                 from \in DOMAIN imports}

(* C23: when the current scope imports n from a scope S that binds n as a constant, as a
   mutable variable or as a function, a lookup of n through the merged view succeeds and
   yields the binding of S: `Let y n` binds y to the value n has in S (also when n is only
   a mutable variable of S), and a call n() finds the function n of S. *)
C23_MergedViewFindsImport ==
    [][\A im \in Imported :
          /\ Dispatching
          /\ Has(scopes, im.from)
          => /\ (/\ Len(tks) >= 3
                 /\ NextTok(0) = Kw("Let")
                 /\ IsIdentTok(NextTok(1))
                 /\ NextTok(2) = Lit(Ident(im.name))
                 /\ (get_const(scopes[im.from], im.name) # << >>
                        \/ get_var(scopes[im.from], im.name) # << >>))
                   => /\ failed' = "none"
                      /\ resolve_var(Cur', NextTok(1).lit.id) # << >>
                      /\ resolve_var(Cur', NextTok(1).lit.id)
                            \in {get_const(scopes[im.from], im.name),
                                 get_var(scopes[im.from], im.name)}
             /\ (/\ IsInvokeTok(NextTok(0))
                 /\ NextTok(0).ex.path = <<im.name>>
                 /\ get_static_fn(scopes[im.from], im.name) # << >>)
                   => /\ failed' = "none"
                      /\ get_static_fn(scopes'[current_scope], im.name)
                            = get_static_fn(scopes[im.from], im.name)]_vars

\* what the integer function of std::math called with (a, b) is to return
MathExpected(call) ==
    LET a == call.args[1].n
        b == call.args[2].n
    IN CASE call.host = "cmp" -> IF a < b THEN -1 ELSE IF a = b THEN 0 ELSE 1
         [] call.host = "min" -> IF a < b THEN a ELSE b
         [] call.host = "max" -> IF a < b THEN b ELSE a

\* C24: in std::math, with a the first and b the second argument, cmp(a, b) is -1
\* when a < b, 0 when a = b and 1 when a > b, min(a, b) is the smaller and
\* max(a, b) the larger of the two.
C24_MathOrder ==
    [][(Len(host_calls') = Len(host_calls) + 1 /\ Last(host_calls').host \in MathFns)
        => /\ failed' = "none"
           /\ lit_stack' = Append(lit_stack, Number(MathExpected(Last(host_calls'))))]_vars

\* the binary operator about to be dispatched, when both its operands are literals
LiteralOperation(ops, type) ==
    /\ Dispatching
    /\ Last(tks).k = "Expression"
    /\ Last(tks).ex.e = "BinaryOp"
    /\ Last(tks).ex.op \in ops
    /\ Last(tks).ex.lh.k = "Literal"
    /\ Last(tks).ex.rh.k = "Literal"
    /\ Last(tks).ex.lh.lit.t = type
    /\ Last(tks).ex.rh.lit.t = type

BoolExpected(ex) ==
    LET a == ex.lh.lit.b
        b == ex.rh.lit.b
    IN CASE ex.op = "And" -> a /\ b
         [] ex.op = "Or" -> a \/ b
         [] ex.op = "Eq" -> a = b
         [] ex.op = "Neq" -> a # b

(* C25: evaluating And, Or, Eq or Neq on two Bool operands pushes exactly one literal,
   the Bool result, on the literal stack, so that a consumer which visits the
   expression and pops the stack top obtains it. *)
C25_BoolResultPushed ==
    [][LiteralOperation(BoolOps, "bool")
        => /\ failed' = "none"
           /\ lit_stack' = Append(lit_stack, Bool(BoolExpected(Last(tks).ex)))]_vars

\* the mathematical result of the operator lies outside the signed 64-bit range
Overflows(ex) ==
    /\ ex.op \in {"Add", "Sub", "Mul"}
    /\ i64_add_sub_mul(ex.op, ex.lh.lit, ex.rh.lit, TRUE).lit = << >>

(* C26: Div or Mod on Numbers with a zero right operand, and Add, Sub or Mul on Numbers
   whose mathematical result is outside the signed 64-bit range, fail and push nothing
   on the literal stack. *)
C26_ArithmeticFails ==
    [][(/\ LiteralOperation(ArithOps, "num")
        /\ \/ Last(tks).ex.op \in {"Div", "Mod"} /\ Last(tks).ex.rh.lit = Number(0)
           \/ Overflows(Last(tks).ex))
        => /\ failed' # "none"
           /\ lit_stack' = lit_stack]_vars

\* the step is a call of next_token or peek_token by the embedder
TokenCall(name) == api_result'.calls = api_result.calls + 1 /\ api_result'.call = name

(* C27: on an empty chain next_token and peek_token each return an error to the caller,
   without aborting the evaluator, and leave the chain empty; on a non-empty chain
   peek_token returns a copy of the tail token and leaves the chain unchanged, and the
   next_token that follows returns that same token. *)
C27_NextAndPeek ==
    [][/\ ((TokenCall("next_token") \/ TokenCall("peek_token")) /\ tks = << >>)
            => /\ failed' = "none"
               /\ api_result'.out # << >>
               /\ ~api_result'.out[1].ok
               /\ tks' = << >>
       /\ (TokenCall("peek_token") /\ tks # << >>)
            => /\ api_result'.out = <<Ok(Last(tks))>>
               /\ tks' = tks
               /\ failed' = "none"
       /\ (TokenCall("next_token") /\ api_result.call = "peek_token" /\ api_result.out[1].ok)
            => /\ api_result'.out = api_result.out
               /\ tks' = Front(tks)]_vars

\* the declaration about to be dispatched has `this` as its first parameter
DeclaresThis ==
    /\ Dispatching
    /\ Last(tks) = Kw("Function")
    /\ Len(tks) >= 5
    /\ tks[Len(tks) - 3] = LParen
    /\ tks[Len(tks) - 4] = Lit(Ident("this"))

(* C28: declaring a function whose first parameter is named `this` while the current
   scope level is not Struct fails, and the declaration registers no function, neither
   an instance nor a static one. *)
C28_ThisOutsideStruct ==
    [][(DeclaresThis /\ Head(scope_types) # "Struct")
        => /\ failed' # "none"
           /\ scopes' = scopes]_vars

\* a declaration of a function with `this` at global level has failed, after an earlier
\* declaration had registered a static function
C28_ThisDeclarationFailed ==
    /\ failed = "Can not have instance functions outside of structs!"
    /\ Head(scope_types) = "Global"
    /\ loads = 2
    /\ DOMAIN scopes[GlobalName].static_fns # {}

\* the step is the call process_until(n), which dispatched d tokens
UntilCall(n, d) ==
    /\ api_result'.calls = api_result.calls + 1
    /\ api_result'.call = "process_until"
    /\ api_result'.arg = <<n>>
    /\ Len(trace') = Len(trace) + d

(* C29: process_until(n) removes tokens from the head of the chain and dispatches at
   most n of them, leaving the remaining tokens in the chain in their original order;
   process_until(0) dispatches none, and on a chain of more than n tokens process_until(n)
   dispatches exactly n. *)
C29_UntilDispatchesN ==
    [][\A n \in 0..MaxUntil : \A d \in 0..(MaxUntil + 1) :
        UntilCall(n, d)
            => /\ d <= n
               /\ Len(tks) > n => d = n
               /\ \A i \in 1..d : trace'[Len(trace) + i].tok = tks[i]
               /\ tks' = SubSeq(tks, d + 1, Len(tks))]_vars

\* the step is the call process_between(lo, hi), and the call has returned
BetweenCall(lo, hi) ==
    /\ api_result'.calls = api_result.calls + 1
    /\ api_result'.call = "process_between"
    /\ api_result'.arg = <<lo, hi>>
    /\ failed' = "none"

(* C30: process_between(lo, hi) executes copies of the tokens at positions lo..hi in a
   cloned evaluator: after it returns, the token chain, the literal stack, the name of
   the current scope and the stack of scope levels of the calling evaluator are as they
   were before the call. *)
C30_BetweenRunsInClone ==
    [][\A lo \in 0..MaxBetween : \A hi \in 0..MaxBetween :
        BetweenCall(lo, hi)
            => /\ tks' = tks
               /\ lit_stack' = lit_stack
               /\ current_scope' = current_scope
               /\ scope_types' = scope_types
               /\ lo < hi => /\ Len(trace') > Len(trace)
                             /\ trace'[Len(trace) + 1].tok = tks[hi]]_vars

\* a process_between over `let x = 2` and a literal has returned: the clone has bound x
\* in the shared global scope, while the caller still holds a literal of its own on
\* its stack and its whole chain
C30_CloneRanLet ==
    /\ api_result.call = "process_between"
    /\ failed = "none"
    /\ Has(scopes[GlobalName].mutables, "x")
    /\ lit_stack # << >>
    /\ tks # << >>

\* the body of the declaration loaded: the tokens between the first LBracket of the chain
\* and the RBracket that ends the chain
LoadedBody ==
    LET open == CHOOSE i \in 1..Len(loaded) :
                    loaded[i] = LBracket /\ \A j \in 1..(i - 1) : loaded[j] # LBracket
    IN SubSeq(loaded, open + 1, Len(loaded) - 1)

(* C31: the Function keyword stores as the body every token up to the RBracket that
   matches the opening LBracket of the body, so a body with a nested LBracket ..
   RBracket group is stored whole and no token of the body is left in the chain. *)
C31_BodyStoredWhole ==
    [][(Dispatching /\ Last(tks) = Kw("Function") /\ tks = Reverse(loaded))
        => /\ failed' = "none"
           /\ Has(scopes'[current_scope].static_fns, "f")
           /\ scopes'[current_scope].static_fns["f"].chain = LoadedBody
           /\ tks' = << >>]_vars

(* C32: declaring a function does not execute its body: apart from removing the tokens
   of the declaration from the chain and adding the function to the function table of
   the current scope, it leaves the literal stack, every variable and constant binding,
   the name of the current scope and the stack of scope levels unchanged. *)
C32_DeclarationRunsNothing ==
    (loads > 0 /\ loaded \in BodyChains)
        => /\ lit_stack = << >>
           /\ \A n \in DOMAIN scopes : scopes[n].mutables = EmptyMap /\ scopes[n].consts = EmptyMap
           /\ current_scope = GlobalName
           /\ scope_types = <<"Global">>
           /\ failed = "none"

(* C33: after any sequence of add_inst_var and reassign_var on a structure instance,
   every instance variable it holds is declared in the schema of its template and holds
   a literal whose type tag is the declared one; a write that violates the schema does
   not change the instance.  (The type of a literal is compared as Literal::type_str
   compares it, which lets an identifier stand for a value of any type.) *)
C33_InstanceFollowsSchema ==
    \A name \in DOMAIN instance.inst_vars :
        /\ Has(instance.schema, name)
        /\ type_str(instance.inst_vars[name], instance.schema[name])

(* C34: an evaluator never blocks on its own locks: while the body of a function runs
   (an activation is on the frame stack) the evaluator holds the lock of no structure
   template, so a static function of a structure called as Struct.fn whose body calls a
   static function of the same structure is not stopped at the lock of the template. *)
C34_NoLockHeldInBody ==
    /\ \A i \in 1..Len(frames) : frames[i].guard = << >>
    /\ failed \notin {WaitLock, RelockPanic}

\* the step is a lookup of `name` through the merged view, `name` being imported from
\* "lib", which exists and binds it as a constant
ImportedLookup(name) ==
    /\ api_result'.calls = api_result.calls + 1
    /\ api_result'.call \in {"resolve_const", "resolve_any_var"}
    /\ api_result'.arg = <<name>>
    /\ Has(scopes[current_scope].imports, LibScopeName)
    /\ \A i \in 1..Len(scopes[current_scope].imports[LibScopeName]) :
          /\ Has(scopes, LibScopeName)
          /\ Has(scopes[LibScopeName].consts, scopes[current_scope].imports[LibScopeName][i])
    /\ name \in Range(scopes[current_scope].imports[LibScopeName])

(* C35: a lookup through the merged view is repeatable and late-bound: every lookup of
   a name the current scope imports as a constant of its source scope succeeds, however
   many lookups came before it, and yields the value the source scope binds to the name
   at the time of this lookup. *)
C35_LookupRepeatable ==
    [][\A name \in {"n", "m"} :
          ImportedLookup(name)
              => /\ failed' = "none"
                 /\ api_result'.out = <<scopes[LibScopeName].consts[name]>>]_vars

\* the call of a function declared in the chain, made by an InvokeStatic expression,
\* is about to return
InvokeReturns ==
    /\ running
    /\ failed = "none"
    /\ tks = << >>
    /\ frames # << >>
    /\ Last(frames).cont = ContPush

(* C36: evaluating an InvokeStatic expression adds exactly one literal, the result of
   the call, to the literal stack: when the call returns, the literals that were on the
   stack before the call are below the result, unchanged, and nothing the body pushed
   is left; a host function called by the expression leaves the stack with its result
   on top of what was there. *)
C36_CallAddsOneLiteral ==
    [][/\ (InvokeReturns /\ failed' = "none")
            => lit_stack' = Last(frames).entry.stack \o <<Last(returned').output>>
       /\ (Dispatching /\ IsInvokeTok(NextTok(0)) /\ frames' = frames /\ failed' = "none")
            => (lit_stack' # << >> /\ Front(lit_stack') = lit_stack)]_vars

\* the step is the call call_ptr_fn(ptr, params) by the embedder
PtrCall(ptr, params) ==
    /\ api_result'.calls = api_result.calls + 1
    /\ api_result'.call = "call_ptr_fn"
    /\ api_result'.arg = <<ptr, params>>

\* the Extern callable with the handler ptr, taking Len(params) parameters
ExternOf(ptr, params) == ExternFn_new("void", [i \in 1..Len(params) |-> "p"], ptr)

(* C37: call_ptr_fn(p, args) invokes the host function that the Extern callable with
   the handler p invokes (handlers count from 1: extern_fns! gives the k-th function of
   the table the handler k), with the same arguments; for a p that designates no
   function of the table (p = 0, p greater than the size of the table) it fails with
   the error of the nonexistent external function and calls no host function. *)
C37_PtrCallsHandler ==
    [][\A ptr \in 0..MaxPtr, params \in PtrParams :
          PtrCall(ptr, params)
              => IF 1 <= ptr /\ ptr <= Len(EXTERN_FNS)
                 THEN host_calls' = ExternFn_call(Cur, ExternOf(ptr, params),
                                                  [i \in 1..Len(params) |-> params[i].lit],
                                                  ContPush).host_calls
                 ELSE failed' = NoSuchPtr /\ host_calls' = host_calls]_vars

\* the current scope is in the scope map and the scope levels end in Global
ScopesSound(st) ==
    /\ st.current_scope \in st.scope_names
    /\ st.scope_types # << >>
    /\ Last(st.scope_types) = "Global"

(* C38: in every state of an evaluator the name of the current scope is a key of the
   scope map and the stack of scope levels is not empty and has Global at its bottom:
   between the dispatches of a chain, inside the calls of functions (nested ones too) and
   after they return or fail, and, for from_chain, in the evaluator and in the clone
   that evaluates the body of the structure, and after from_chain has returned. *)
C38_CurrentScopeExists ==
    /\ ScopesSound(scope_state(Cur))
    /\ api_result.call = "from_chain" => \A i \in 1..Len(api_result.out) : ScopesSound(api_result.out[i])

\* a nested call is under way in an evaluator that has evaluated the body `let x = 2` of
\* a structure at the level Struct and has returned from from_chain
C38_NestedCallAfterStruct ==
    /\ api_result.call = "from_chain"
    /\ api_result.arg[2] = <<Kw("Let"), Lit(Ident("x")), Lit(Number(2))>>
    /\ api_result.out[2].scope_types = <<"Struct", "Global">>
    /\ failed = "none"
    /\ Len(frames) = 2
    /\ scope_types = <<"InstanceFunction", "InstanceFunction", "Global">>
====
